---------------------------- MODULE Spec2Model ----------------------------
(***************************************************************************)
(* Model of the CodeQL bundle setup code (setup-codeql.js): the version    *)
(* normalizer, the candidate source enumerator, the release asset locator  *)
(* and the tool source resolver getCodeQLSource.                           *)
(*                                                                         *)
(* Strings are sequences of one-character strings, so that the regular     *)
(* expressions, prefix tests and semantic-version parsing of the code are  *)
(* computed character by character.                                        *)
(***************************************************************************)
EXTENDS Naturals, Sequences, FiniteSets

-----------------------------------------------------------------------------
(* JavaScript values that are not strings.                                 *)

\* `undefined`: a one-element sequence that is no character string.
Undefined == <<"<undefined>">>

\* `null`, as returned by semver.valid and semver.clean.
Null == <<"<null>">>

\* JavaScript truthiness of a string-or-undefined value.
Truthy(x) == x # Undefined /\ x # Null /\ x # <<>>

\* `${x}` in a template literal.
STR_undefined == <<"u","n","d","e","f","i","n","e","d">>
Template(x) == IF x = Undefined THEN STR_undefined ELSE x

-----------------------------------------------------------------------------
(* String primitives.                                                      *)

Digits == {"0","1","2","3","4","5","6","7","8","9"}

Letters ==
    {"a","b","c","d","e","f","g","h","i","j","k","l","m","n","o","p","q","r",
     "s","t","u","v","w","x","y","z",
     "A","B","C","D","E","F","G","H","I","J","K","L","M","N","O","P","Q","R",
     "S","T","U","V","W","X","Y","Z"}

\* String.prototype.startsWith
StartsWith(s, p) == Len(s) >= Len(p) /\ SubSeq(s, 1, Len(p)) = p

\* The substring of s from index i (1-based) to its end.
From(s, i) == SubSeq(s, i, Len(s))

\* String.prototype.indexOf, 1-based; 0 when p does not occur in s.
Least(hits) ==
    IF hits = {} THEN 0 ELSE CHOOSE i \in hits : \A j \in hits : i <= j

Greatest(hits) ==
    IF hits = {} THEN 0 ELSE CHOOSE i \in hits : \A j \in hits : i >= j

IndexOf(s, p) ==
    Least({i \in 1..(Len(s) + 1) : StartsWith(From(s, i), p)})

\* String.prototype.lastIndexOf for one character, 1-based; 0 when absent.
LastIndexOf(s, c) == Greatest({i \in 1..Len(s) : s[i] = c})

\* String.prototype.split on a one-character separator.
RECURSIVE Split(_, _)
Split(s, c) ==
    IF IndexOf(s, <<c>>) = 0 THEN <<s>>
    ELSE <<SubSeq(s, 1, IndexOf(s, <<c>>) - 1)>>
         \o Split(From(s, IndexOf(s, <<c>>) + 1), c)

\* String.prototype.trim, for the blank character.
RECURSIVE Trim(_)
Trim(s) ==
    IF s # <<>> /\ s[1] = " " THEN Trim(Tail(s))
    ELSE IF s # <<>> /\ s[Len(s)] = " " THEN Trim(SubSeq(s, 1, Len(s) - 1))
    ELSE s

-----------------------------------------------------------------------------
(* The semver package, as used by the code: strict (non-loose) parsing.    *)

\* NUMERICIDENTIFIER: 0|[1-9]\d*
NumericIdentifier(s) ==
    /\ s # <<>>
    /\ \A i \in 1..Len(s) : s[i] \in Digits
    /\ (Len(s) = 1 \/ s[1] # "0")

\* PRERELEASEIDENTIFIER: a numeric identifier, or \d*[a-zA-Z-][a-zA-Z0-9-]*
PrereleaseIdentifier(s) ==
    /\ s # <<>>
    /\ \A i \in 1..Len(s) : s[i] \in Digits \cup Letters \cup {"-"}
    /\ ((\A i \in 1..Len(s) : s[i] \in Digits) => NumericIdentifier(s))

\* BUILDIDENTIFIER: [0-9A-Za-z-]+
BuildIdentifier(s) ==
    /\ s # <<>>
    /\ \A i \in 1..Len(s) : s[i] \in Digits \cup Letters \cup {"-"}

\* The part of s before the first c (all of s when c does not occur), and
\* the part after it (Undefined when c does not occur).
BeforeFirst(s, c) ==
    IF IndexOf(s, <<c>>) = 0 THEN s ELSE SubSeq(s, 1, IndexOf(s, <<c>>) - 1)

AfterFirst(s, c) ==
    IF IndexOf(s, <<c>>) = 0 THEN Undefined ELSE From(s, IndexOf(s, <<c>>) + 1)

\* The dot-separated identifiers are all of the given kind.
AllNumeric(ids) == \A i \in 1..Len(ids) : NumericIdentifier(ids[i])
AllPrerelease(ids) == \A i \in 1..Len(ids) : PrereleaseIdentifier(ids[i])
AllBuild(ids) == \A i \in 1..Len(ids) : BuildIdentifier(ids[i])

\* MAINVERSION, PRERELEASE and BUILD of the FULL regular expression, and the
\* version string of the parsed value: `major.minor.patch[-prerelease]`
\* (build metadata dropped), or Null when a part does not match.
SemVerOfParts(main, pre, build) ==
    IF /\ Len(Split(main, ".")) = 3
       /\ AllNumeric(Split(main, "."))
       /\ (pre # Undefined => AllPrerelease(Split(pre, ".")))
       /\ (build # Undefined => AllBuild(Split(build, ".")))
    THEN (IF pre = Undefined THEN main ELSE main \o <<"-">> \o pre)
    ELSE Null

\* The optional "v", then the main version up to the first "-" and the
\* pre-release after it.
SemVerOfHead(head, build) ==
    SemVerOfParts(BeforeFirst(head, "-"), AfterFirst(head, "-"), build)

StripV(s) == IF s # <<>> /\ s[1] = "v" THEN Tail(s) ELSE s

\* The build metadata is what follows the first "+".
SemVerOfTrimmed(t) ==
    SemVerOfHead(StripV(BeforeFirst(t, "+")), AfterFirst(t, "+"))

\* new SemVer(version).version: the FULL regular expression
\* ^v?MAIN(-PRERELEASE)?(\+BUILD)?$ applied to the trimmed string.
SemVerParse(version) == SemVerOfTrimmed(Trim(version))

\* semver.valid(version)
SemVerValid(version) ==
    IF version = Undefined THEN Null ELSE SemVerParse(version)

\* version.trim().replace(/^[=v]+/, '')
RECURSIVE StripEqV(_)
StripEqV(s) ==
    IF s # <<>> /\ s[1] \in {"=", "v"} THEN StripEqV(Tail(s)) ELSE s

\* semver.clean(version)
SemVerClean(version) == SemVerParse(StripEqV(Trim(version)))

-----------------------------------------------------------------------------
(* Literals of the code.                                                   *)

STR_latest == <<"l","a","t","e","s","t">>
STR_http == <<"h","t","t","p">>
STR_local == <<"l","o","c","a","l">>
STR_unknown == <<"u","n","k","n","o","w","n">>
STR_tagPrefix == <<"c","o","d","e","q","l","-","b","u","n","d","l","e","-">>
STR_zeroPrefix == <<"0",".","0",".","0","-">>
STR_tarGz == <<".","t","a","r",".","g","z">>
STR_bundleGeneric ==
    <<"c","o","d","e","q","l","-","b","u","n","d","l","e">> \o STR_tarGz
STR_https_github ==
    <<"h","t","t","p","s",":","/","/","g","i","t","h","u","b",".","c","o","m","/">>
STR_releasesDownload ==
    <<"/","r","e","l","e","a","s","e","s","/","d","o","w","n","l","o","a","d","/">>

CODEQL_DEFAULT_ACTION_REPOSITORY ==
    <<"g","i","t","h","u","b","/","c","o","d","e","q","l","-","a","c","t","i","o","n">>

\* util.GITHUB_DOTCOM_URL (util is not among the sources; "the public host
\* endpoint" of the specification).
GITHUB_DOTCOM_URL ==
    <<"h","t","t","p","s",":","/","/","g","i","t","h","u","b",".","c","o","m">>

\* util.GitHubVariant (util is not among the sources): the public
\* multi-tenant variant, the enterprise-server variant and the managed one.
GitHubVariant == {"DOTCOM", "GHES", "GHAE"}

\* defaults.json, the defaults bundled with the action (not among the
\* sources): a CLI version and the tag name of its bundle.
V_2_13_0 == <<"2",".","1","3",".","0">>
defaults ==
    [cliVersion |-> V_2_13_0, bundleVersion |-> STR_tagPrefix \o <<"v">> \o V_2_13_0]

\* The value raised by `throw new Error(...)`.
Throws == <<"<Error>">>

-----------------------------------------------------------------------------
(* Version normalizer.                                                     *)

\* The line terminators, which `.` does not match.
LineTerminators == {"\n", "\r"}
HasLineTerminator(s) == \E i \in 1..Len(s) : s[i] \in LineTerminators

\* The match without the anchor at the start.
tryGetBundleVersionFromTagName_unanchored(tagName) ==
    IF IndexOf(tagName, STR_tagPrefix) # 0
          /\ ~HasLineTerminator(From(tagName, IndexOf(tagName, STR_tagPrefix)))
    THEN From(tagName, IndexOf(tagName, STR_tagPrefix) + Len(STR_tagPrefix))
    ELSE Undefined

\* tagName.match(/^codeql-bundle-(.*)$/): the prefix at the start, then
\* characters other than line terminators up to the end of the string.
tryGetBundleVersionFromTagName(tagName) ==
    IF StartsWith(tagName, STR_tagPrefix) /\ ~HasLineTerminator(tagName)
    THEN From(tagName, Len(STR_tagPrefix) + 1)
    ELSE Undefined

\* url.match(/\/(codeql-bundle-.*)\//): the leftmost "/codeql-bundle-" and,
\* the star being greedy, the last "/" of the string after it.
MatchBetween(s, i, j) ==
    IF i # 0 /\ j >= i + Len(STR_tagPrefix) + 1
    THEN SubSeq(s, i + 1, j - 1)
    ELSE Undefined

tryGetTagNameFromUrl(u) ==
    MatchBetween(u, IndexOf(u, <<"/">> \o STR_tagPrefix), LastIndexOf(u, "/"))

BundleVersionOfTag(tag) ==
    IF tag = Undefined THEN Undefined ELSE tryGetBundleVersionFromTagName(tag)

tryGetBundleVersionFromUrl(u) == BundleVersionOfTag(tryGetTagNameFromUrl(u))

\* A bundle version that is no semantic version is wrapped as a pre-release
\* of 0.0.0; the function throws when the wrapped form does not parse.
OrThrow(s) == IF ~Truthy(s) THEN Throws ELSE s

\* Every version is treated as a pre-release of 0.0.0.
convertToSemVer_alwaysWrap(version) ==
    OrThrow(SemVerClean(STR_zeroPrefix \o version))

\* Only a plain x.y.z is kept; every other version is wrapped.
convertToSemVer_wrapUnlessPlain(version) ==
    OrThrow(SemVerClean(IF SemVerValid(version) = Null
                           \/ IndexOf(version, <<"-">>) # 0
                        THEN STR_zeroPrefix \o version
                        ELSE version))

\* The wrapped string is returned unparsed when it is no semantic version.
convertToSemVer_softFallback(version) ==
    IF SemVerValid(version) # Null THEN SemVerClean(version)
    ELSE IF Truthy(SemVerClean(STR_zeroPrefix \o version))
    THEN SemVerClean(STR_zeroPrefix \o version)
    ELSE STR_zeroPrefix \o version

convertToSemVer(version) ==
    OrThrow(SemVerClean(IF SemVerValid(version) = Null
                        THEN STR_zeroPrefix \o version
                        ELSE version))

-----------------------------------------------------------------------------
(* Candidate source enumerator.                                            *)

\* process.platform
Platforms == {"win32", "linux", "darwin", "aix"}

getCodeQLBundleName(platform) ==
    IF platform = "win32"
    THEN STR_tagPrefix \o <<"w","i","n","6","4">> \o STR_tarGz
    ELSE IF platform = "linux"
    THEN STR_tagPrefix \o <<"l","i","n","u","x","6","4">> \o STR_tarGz
    ELSE IF platform = "darwin"
    THEN STR_tagPrefix \o <<"o","s","x","6","4">> \o STR_tarGz
    ELSE STR_bundleGeneric

\* The three (endpoint, repository) pairs, in priority order.
potentialDownloadSources(apiUrl, codeQLActionRepository) ==
    << <<apiUrl, codeQLActionRepository>>,
       <<apiUrl, CODEQL_DEFAULT_ACTION_REPOSITORY>>,
       <<GITHUB_DOTCOM_URL, CODEQL_DEFAULT_ACTION_REPOSITORY>> >>

\* self.filter((source, index) => !self.slice(0, index).some(equal to source))
RECURSIVE FilterFirstOccurrences(_, _)
FilterFirstOccurrences(self, index) ==
    IF index > Len(self) THEN <<>>
    ELSE (IF \E k \in 1..(index - 1) : self[k] = self[index]
          THEN <<>> ELSE <<self[index]>>)
         \o FilterFirstOccurrences(self, index + 1)

\* The candidates with their duplicates.
uniqueDownloadSources_unfiltered(apiUrl, codeQLActionRepository) ==
    potentialDownloadSources(apiUrl, codeQLActionRepository)

uniqueDownloadSources(apiUrl, codeQLActionRepository) ==
    FilterFirstOccurrences(
        potentialDownloadSources(apiUrl, codeQLActionRepository), 1)

\* The URL returned when no candidate yields one.
SynthesizedURL(tagName, codeQLBundleName) ==
    STR_https_github \o CODEQL_DEFAULT_ACTION_REPOSITORY \o STR_releasesDownload
        \o Template(tagName) \o <<"/">> \o codeQLBundleName

-----------------------------------------------------------------------------
(* Inputs and the tool cache.                                              *)

V_2_12_1 == <<"2",".","1","2",".","1">>
BV_20230101 == <<"2","0","2","3","0","1","0","1">>
BV_20230102 == <<"2","0","2","3","0","1","0","2">>
BV_20211207 == <<"2","0","2","1","1","2","0","7">>
URL_HOST == <<"h","t","t","p","s",":","/","/","x",".","i","o","/">>

\* The `tools` input: unset, empty, "latest", local paths and URLs (with a
\* timestamp tag, with a semantic-version tag, without a tag, with a tag
\* whose bundle version cannot be wrapped as a pre-release, with a tag
\* whose bundle version is empty, and a release asset of the canonical
\* repository on the public host).
IN_localPath == <<"f","o","o","/","b","a","r">> \o STR_tarGz
IN_latestPath == STR_latest \o <<"/","x">>
IN_htPath == <<"h","t","/","x">>
IN_urlTag == URL_HOST \o STR_tagPrefix \o BV_20230101 \o <<"/","b">>
IN_urlSemVer == URL_HOST \o STR_tagPrefix \o <<"v">> \o V_2_12_1 \o <<"/","b">>
IN_urlNoTag == URL_HOST \o <<"b">>
IN_urlBad == URL_HOST \o STR_tagPrefix \o <<"0","1","2">> \o <<"/","b">>
IN_urlEmptyVersion == URL_HOST \o STR_tagPrefix \o <<"/","b">>
IN_urlCanonical ==
    STR_https_github \o CODEQL_DEFAULT_ACTION_REPOSITORY \o STR_releasesDownload
        \o STR_tagPrefix \o BV_20230102 \o <<"/","b">>

LocalInputs == {IN_localPath, IN_latestPath, IN_htPath}
UrlInputs ==
    {IN_urlTag, IN_urlSemVer, IN_urlNoTag, IN_urlBad, IN_urlEmptyVersion,
     IN_urlCanonical}
ToolsInputs == {Undefined, <<>>, STR_latest} \cup LocalInputs \cup UrlInputs

\* The default CLI version passed in by the caller: a version other than
\* the bundled one, and the bundled one.
DefaultCliVersions ==
    { [cliVersion |-> V_2_12_1, tagName |-> STR_tagPrefix \o BV_20230101],
      [cliVersion |-> defaults.cliVersion, tagName |-> defaults.bundleVersion] }

\* apiDetails.url: the public host and an enterprise host.
GHES_URL == <<"h","t","t","p","s",":","/","/","g","h","e",".","i","o">>
ApiUrls == {GITHUB_DOTCOM_URL, GHES_URL}

\* GITHUB_ACTION_REPOSITORY: the canonical repository and a fork.
FORK_REPOSITORY == <<"f","o","r","k","/","a">>
ActionRepositories == {CODEQL_DEFAULT_ACTION_REPOSITORY, FORK_REPOSITORY}

\* util.isGoodVersion (util is not among the sources): the "general validity
\* filter" of the specification, a fixed list of broken versions.
BROKEN_VERSIONS == {STR_zeroPrefix \o BV_20211207}
isGoodVersion(versionSpec) == versionSpec \notin BROKEN_VERSIONS

\* Version strings a cache entry may have (directory names under
\* <cache>/CodeQL, each an explicit semantic version).
CacheVersions ==
    { V_2_12_1,
      V_2_12_1 \o <<"-">> \o BV_20230101,
      V_2_12_1 \o <<"-">> \o BV_20230102,
      STR_zeroPrefix \o BV_20230101,
      V_2_13_0,
      STR_zeroPrefix \o BV_20211207 }

\* The number of entries of the tool cache.
MaxCacheEntries == 3

TOOLCACHE_DIR == <<"/","t","c","/","C","o","d","e","Q","L","/">>

VARIABLES
    toolcacheVersions,  \* the versions of the entries of the tool cache
    pinnedVersions,     \* the entries whose folder holds a pinned-version file
    pc,                 \* the position of the running call
    codeQLActionRepository, \* GITHUB_ACTION_REPOSITORY of the job
    platform,           \* process.platform of the runner
    apiUrl, variant,    \* apiDetails.url and the variant of the host
    toolsInput, defaultCliVersion,  \* the arguments of the call
    cliVersion, tagName, url, humanReadableVersion, codeqlFolder,
    sources, index, codeQLBundleName,   \* getCodeQLBundleDownloadURL's locals
    calls,              \* the cache lookups and API requests made so far
    result,             \* what the call returned, or the error it threw
    given, returned,    \* a normalizer call: its argument, what it returned
    step,               \* the position of downloadCodeQL and setupCodeQLBundle
    download,           \* downloadCodeQL's arguments and locals
    files,              \* the temporary files and directories that exist
    downloaded,         \* what downloadCodeQL returned, or the error it threw
    setup,              \* what setupCodeQLBundle returned, or the error it threw
    processEnv,         \* process.env: the variables of the job that are set
    statusReport,       \* the status report that was composed last
    sent,               \* the last call of sendStatusReport and how it ended
    uploads,            \* the number of status upload requests sent
    startedAt,          \* the start time of the action that is running
    languages,          \* downloadDependencyCaches: the languages passed in
    cursor,             \* the position of its loop in the languages
    restoredCaches,     \* its list of languages with a restored cache
    restoreCalls,       \* the calls of actionsCache.restoreCache so far
    workspaceFiles,     \* the files of the workspace
    cachingStep         \* where downloadDependencyCaches stands

cacheVars == <<toolcacheVersions, pinnedVersions>>
envVars == <<codeQLActionRepository, platform, apiUrl, variant>>
argVars == <<toolsInput, defaultCliVersion>>
resolverVars == <<cliVersion, tagName, url, humanReadableVersion, codeqlFolder>>
locatorVars == <<sources, index, codeQLBundleName>>
normalizerVars == <<given, returned>>
pipelineVars == <<step, download, files, downloaded, setup>>
statusVars == <<processEnv, statusReport, sent, uploads, startedAt>>
dependencyVars == <<languages, cursor, restoredCaches, restoreCalls,
                    workspaceFiles, cachingStep>>
otherVars == <<normalizerVars, pipelineVars, statusVars, dependencyVars>>
vars == <<cacheVars, envVars, pc, argVars, resolverVars, locatorVars, calls, result,
          otherVars>>

\* toolcache.find("CodeQL", versionSpec) for an explicit version: the folder
\* of the entry named semver.clean(versionSpec), or "" when there is none.
FolderOf(v) ==
    IF v # Null /\ v \in toolcacheVersions THEN TOOLCACHE_DIR \o v ELSE <<>>

find(versionSpec) == FolderOf(SemVerClean(versionSpec))

\* toolcache.findAllVersions("CodeQL")
findAllVersions == toolcacheVersions

\* A cache lookup or API request: the step of the code that made it, the
\* operation, its argument and what it gave.
Call(site, op, arg, out) == [site |-> site, op |-> op, arg |-> arg, out |-> out]

NoResult == [sourceType |-> "none"]
Thrown == [sourceType |-> "error"]

-----------------------------------------------------------------------------
(* getCodeQLSource: the tool source resolver.                              *)

\* a && b and a ?? b of JavaScript.
JsAnd(a, b) == IF Truthy(a) THEN b ELSE a
Nullish(a, b) == IF a = Undefined \/ a = Null THEN b ELSE a

\* No call is running.
NoCall ==
    /\ pc = "idle"
    /\ toolsInput = Undefined
    /\ defaultCliVersion =
         [cliVersion |-> defaults.cliVersion, tagName |-> defaults.bundleVersion]
    /\ cliVersion = Undefined
    /\ tagName = Undefined
    /\ url = Undefined
    /\ humanReadableVersion = Undefined
    /\ codeqlFolder = Undefined
    /\ sources = <<>>
    /\ index = 1
    /\ codeQLBundleName = Undefined
    /\ calls = <<>>
    /\ result = NoResult

\* No normalizer call has been made.
NotReturned == [fn |-> "none"]
NoNormalizerCall == given = Undefined /\ returned = NotReturned

\* The arguments and locals of downloadCodeQL before it is called.
NoLocals ==
    [codeqlURL |-> Undefined, maybeBundleVersion |-> Undefined,
     maybeCliVersion |-> Undefined, authorization |-> Undefined,
     toolsDownloadDurationMs |-> Undefined, bundleVersion |-> Undefined,
     toolcacheVersion |-> Undefined, codeqlFolder |-> Undefined]

\* downloadCodeQL and setupCodeQLBundle are not running.
NoDownload ==
    /\ step = "none"
    /\ download = NoLocals
    /\ files = {}
    /\ downloaded = NoResult
    /\ setup = NoResult

\* No status report was composed or sent, and none of the variables that
\* status reports read is set.
NoReport == [status |-> "none"]

\* The first action of the job starts at 05:19 UTC on 19 May 2023; times are
\* minutes past 05:00 of that day.
FirstStart == 19

NotSent == [n |-> 0, reply |-> "none", logged |-> "none", value |-> "none"]

NoStatusReport ==
    /\ processEnv = [k \in {} |-> ""]
    /\ statusReport = NoReport
    /\ sent = NotSent
    /\ uploads = 0
    /\ startedAt = FirstStart

\* downloadDependencyCaches is not running, in an empty workspace.
NoDependencyCaching ==
    /\ languages = <<>>
    /\ cursor = 0
    /\ restoredCaches = <<>>
    /\ restoreCalls = <<>>
    /\ workspaceFiles = {}
    /\ cachingStep = "idle"

\* The state before the first call, for the given contents of the cache and
\* the given environments of the job.
InitWith(caches, repositories, platforms) ==
    /\ toolcacheVersions \in caches
    /\ pinnedVersions \in SUBSET toolcacheVersions
    /\ codeQLActionRepository \in repositories
    /\ platform \in platforms
    /\ apiUrl \in ApiUrls
    /\ variant \in GitHubVariant
    /\ NoCall
    /\ NoNormalizerCall
    /\ NoDownload
    /\ NoStatusReport
    /\ NoDependencyCaching

\* Every cache of at most MaxCacheEntries entries, on a Linux runner.
Init ==
    InitWith({c \in SUBSET CacheVersions : Cardinality(c) <= MaxCacheEntries},
             ActionRepositories, {"linux"})

\* Every action repository and platform, with an empty cache and with a
\* cache that holds the default version.
InitLocator ==
    InitWith({{}, {V_2_12_1}}, ActionRepositories, Platforms)

\* The override with a prefix test in place of the comparison with "latest".
IsLocalInput_prefixLatest(input) ==
    Truthy(input) /\ ~StartsWith(input, STR_latest)
        /\ ~StartsWith(input, STR_http)

\* The explicit local override.
IsLocalInput(input) ==
    Truthy(input) /\ input # STR_latest /\ ~StartsWith(input, STR_http)

forceShippedTools == toolsInput = STR_latest

\* Every bundle version of a URL is made a CLI version.
CliVersionOfBundleVersion_everyVersion(bundleVersion) ==
    IF Truthy(bundleVersion)
    THEN convertToSemVer(bundleVersion)
    ELSE Undefined

\* The CLI version a URL stands for: the bundle version of its tag, if that
\* is a semantic version.
CliVersionOfBundleVersion(bundleVersion) ==
    IF Truthy(bundleVersion) /\ Truthy(SemVerValid(bundleVersion))
    THEN convertToSemVer(bundleVersion)
    ELSE Undefined

CliVersionOfTag(tag) ==
    IF Truthy(tag)
    THEN CliVersionOfBundleVersion(tryGetBundleVersionFromTagName(tag))
    ELSE Undefined

\* The request with "latest" resolved to the default version passed in.
RequestedVersions_latestFromCaller(input, default) ==
    IF input = STR_latest \/ input = Undefined
    THEN [cliVersion |-> default.cliVersion,
          tagName |-> default.tagName,
          url |-> Undefined]
    ELSE [cliVersion |-> CliVersionOfTag(tryGetTagNameFromUrl(input)),
          tagName |-> tryGetTagNameFromUrl(input),
          url |-> input]

\* The URL of the request is not kept.
RequestedVersions_withoutUrl(input, default) ==
    IF input = STR_latest
    THEN [cliVersion |-> defaults.cliVersion,
          tagName |-> defaults.bundleVersion,
          url |-> Undefined]
    ELSE IF input # Undefined
    THEN [cliVersion |-> CliVersionOfTag(tryGetTagNameFromUrl(input)),
          tagName |-> tryGetTagNameFromUrl(input),
          url |-> Undefined]
    ELSE [cliVersion |-> default.cliVersion,
          tagName |-> default.tagName,
          url |-> Undefined]

\* The CLI version, tag name and URL the request stands for.
RequestedVersions(input, default) ==
    IF input = STR_latest
    THEN [cliVersion |-> defaults.cliVersion,
          tagName |-> defaults.bundleVersion,
          url |-> Undefined]
    ELSE IF input # Undefined
    THEN [cliVersion |-> CliVersionOfTag(tryGetTagNameFromUrl(input)),
          tagName |-> tryGetTagNameFromUrl(input),
          url |-> input]
    ELSE [cliVersion |-> default.cliVersion,
          tagName |-> default.tagName,
          url |-> Undefined]

\* bundleVersion && convertToSemVer(bundleVersion)
SemVerOfBundleVersion(bundleVersion) ==
    JsAnd(bundleVersion, convertToSemVer(bundleVersion))

\* cliVersion ?? (bundleVersion && convertToSemVer(bundleVersion)) ?? tagName
\*   ?? url ?? "unknown"; Throws when convertToSemVer throws.
HumanReadableVersion(cli, tag, u) ==
    Nullish(cli,
      Nullish(SemVerOfBundleVersion(
                  JsAnd(tag, tryGetBundleVersionFromTagName(tag))),
        Nullish(tag, Nullish(u, STR_unknown))))

\* The versions are known: on to the cache lookups, unless the version
\* label could not be computed.
StartLookups(cli, tag, u, hrv) ==
    /\ cliVersion' = cli
    /\ tagName' = tag
    /\ url' = u
    /\ humanReadableVersion' = hrv
    /\ result' = IF cli = Throws \/ hrv = Throws THEN Thrown ELSE NoResult
    /\ pc' = IF cli = Throws \/ hrv = Throws THEN "error"
             ELSE IF Truthy(cli) THEN "exact"
             ELSE "coerced"

StartLookupsFor(req) ==
    StartLookups(req.cliVersion, req.tagName, req.url,
                 HumanReadableVersion(req.cliVersion, req.tagName, req.url))

\* getCodeQLSource(input, default, ...), up to the first cache lookup.
CallGetCodeQLSource(input, default) ==
    /\ toolsInput' = input
    /\ defaultCliVersion' = default
    /\ codeqlFolder' = Undefined
    /\ sources' = <<>>
    /\ index' = 1
    /\ codeQLBundleName' = Undefined
    /\ IF IsLocalInput(input)
       THEN /\ result' = [sourceType |-> "local",
                          codeqlTarPath |-> input,
                          toolsVersion |-> STR_local]
            /\ pc' = "done"
            /\ cliVersion' = Undefined
            /\ tagName' = Undefined
            /\ url' = Undefined
            /\ humanReadableVersion' = Undefined
       ELSE StartLookupsFor(RequestedVersions(input, default))

\* The call, up to the first cache lookup.
getCodeQLSource ==
    /\ pc = "idle"
    /\ \E input \in ToolsInputs, default \in DefaultCliVersions :
         CallGetCodeQLSource(input, default)
    /\ calls' = <<>>
    /\ UNCHANGED <<otherVars, cacheVars, envVars>>

\* A cache lookup of `version` that gave `folder`.
Lookup(site, version, folder) ==
    /\ codeqlFolder' = folder
    /\ calls' = Append(calls, Call(site, "find", version, folder))

\* The lookup of the exact CLI version.
ExactLookup ==
    /\ pc = "exact"
    /\ Lookup("exact", cliVersion, find(cliVersion))
    /\ pc' = IF Truthy(codeqlFolder') THEN "coerced" ELSE "suffix"
    /\ UNCHANGED <<otherVars, cacheVars, envVars, argVars, cliVersion, tagName, url,
                   humanReadableVersion, locatorVars, result>>

\* The cached versions of the form `<cliVersion>-...`
candidateVersions(allVersions) ==
    {version \in allVersions : StartsWith(version, cliVersion \o <<"-">>)}

\* Some candidate is looked up whenever there is one.
UseOnlyCandidate_anyCandidate(candidates) ==
    /\ calls' = Append(calls, Call("suffix", "findAllVersions", <<>>, <<>>))
                \o (IF Cardinality(candidates) >= 1
                    THEN << Call("suffix", "find",
                                 CHOOSE v \in candidates : TRUE,
                                 find(CHOOSE v \in candidates : TRUE)) >>
                    ELSE <<>>)
    /\ codeqlFolder' = IF Cardinality(candidates) >= 1
                       THEN find(CHOOSE v \in candidates : TRUE)
                       ELSE codeqlFolder

\* The only candidate is looked up; none is when there are several or none.
UseOnlyCandidate(candidates) ==
    /\ calls' = Append(calls, Call("suffix", "findAllVersions", <<>>, <<>>))
                \o (IF Cardinality(candidates) = 1
                    THEN << Call("suffix", "find",
                                 CHOOSE v \in candidates : TRUE,
                                 find(CHOOSE v \in candidates : TRUE)) >>
                    ELSE <<>>)
    /\ codeqlFolder' = IF Cardinality(candidates) = 1
                       THEN find(CHOOSE v \in candidates : TRUE)
                       ELSE codeqlFolder

\* The fallback to the only version of the form `<cliVersion>-...`
SuffixLookup ==
    /\ pc = "suffix"
    /\ UseOnlyCandidate(candidateVersions(findAllVersions))
    /\ pc' = "coerced"
    /\ UNCHANGED <<otherVars, cacheVars, envVars, argVars, cliVersion, tagName, url,
                   humanReadableVersion, locatorVars, result>>

\* convertToSemVer of the bundle version of the tag, if it has one.
SemVerOrUndefined(bundleVersion) ==
    IF ~Truthy(bundleVersion) THEN Undefined
    ELSE convertToSemVer(bundleVersion)

tryGetFallbackToolcacheVersion(cli, tag) ==
    SemVerOrUndefined(tryGetBundleVersionFromTagName(tag))

\* The lookup of the fallback version, if there is one; the call throws
\* when convertToSemVer threw.
LookupFallback(fallbackVersion) ==
    IF fallbackVersion = Throws
    THEN /\ result' = Thrown
         /\ pc' = "error"
         /\ UNCHANGED <<codeqlFolder, calls>>
    ELSE IF Truthy(fallbackVersion)
    THEN /\ Lookup("coerced", fallbackVersion, find(fallbackVersion))
         /\ pc' = "cacheDone"
         /\ UNCHANGED result
    ELSE /\ pc' = "cacheDone"
         /\ UNCHANGED <<codeqlFolder, calls, result>>

\* The fallback is looked up whether or not a version was found already.
CoercedLookup_evenAfterHit ==
    /\ pc = "coerced"
    /\ IF Truthy(tagName)
       THEN LookupFallback(tryGetFallbackToolcacheVersion(cliVersion, tagName))
       ELSE /\ pc' = "cacheDone"
            /\ UNCHANGED <<codeqlFolder, calls, result>>
    /\ UNCHANGED <<otherVars, cacheVars, envVars, argVars, cliVersion, tagName, url,
                   humanReadableVersion, locatorVars>>

\* The fallback to `0.0.0-<bundleVersion>`.
CoercedLookup ==
    /\ pc = "coerced"
    /\ IF ~Truthy(codeqlFolder) /\ Truthy(tagName)
       THEN LookupFallback(tryGetFallbackToolcacheVersion(cliVersion, tagName))
       ELSE /\ pc' = "cacheDone"
            /\ UNCHANGED <<codeqlFolder, calls, result>>
    /\ UNCHANGED <<otherVars, cacheVars, envVars, argVars, cliVersion, tagName, url,
                   humanReadableVersion, locatorVars>>

\* The version label of a toolcache or download result.
toolsVersion == Nullish(cliVersion, humanReadableVersion)

\* A version was found in the cache.
ReturnToolcache ==
    /\ pc = "cacheDone"
    /\ Truthy(codeqlFolder)
    /\ result' = [sourceType |-> "toolcache",
                  codeqlFolder |-> codeqlFolder,
                  toolsVersion |-> toolsVersion]
    /\ pc' = "done"
    /\ UNCHANGED <<otherVars, cacheVars, envVars, argVars, resolverVars, locatorVars, calls>>

\* The cached versions whose folder holds a pinned-version file, broken
\* versions included.
pinnedCandidates_unfiltered ==
    {version \in findAllVersions : version \in pinnedVersions}

\* The cached versions that pass the filter and whose folder holds a
\* pinned-version file.
pinnedCandidates ==
    {version \in findAllVersions :
        isGoodVersion(version) /\ version \in pinnedVersions}

\* The toolcache source of a cached version.
OverridingSource(version) ==
    [sourceType |-> "toolcache",
     codeqlFolder |-> find(version),
     toolsVersion |-> version]

\* Some candidate, whenever there is one.
OnlyCandidate_firstOfSeveral(candidates) ==
    IF Cardinality(candidates) >= 1
    THEN OverridingSource(CHOOSE v \in candidates : TRUE)
    ELSE NoResult

\* The only candidate, if there is exactly one (NoResult for `undefined`).
OnlyCandidate(candidates) ==
    IF Cardinality(candidates) = 1
    THEN OverridingSource(CHOOSE v \in candidates : TRUE)
    ELSE NoResult

findOverridingToolsInCache == OnlyCandidate(pinnedCandidates)

\* The result of the search is returned if there is one.
ReturnIfFound(found) ==
    IF found # NoResult
    THEN /\ result' = found
         /\ pc' = "done"
    ELSE /\ pc' = "download"
         /\ UNCHANGED result

\* Another cached version may stand in on every variant.
MayOverride_anyVariant ==
    ~forceShippedTools /\ ~Truthy(toolsInput)

\* Whether another cached version may stand in for the requested one.
MayOverride ==
    variant # "DOTCOM" /\ ~forceShippedTools /\ ~Truthy(toolsInput)

\* No version was found in the cache.
PinnedSearch ==
    /\ pc = "cacheDone"
    /\ ~Truthy(codeqlFolder)
    /\ IF MayOverride
       THEN /\ calls' = Append(calls,
                 Call("pinned", "findOverridingToolsInCache", <<>>, <<>>))
            /\ ReturnIfFound(findOverridingToolsInCache)
       ELSE /\ pc' = "download"
            /\ UNCHANGED <<calls, result>>
    /\ UNCHANGED <<otherVars, cacheVars, envVars, argVars, resolverVars, locatorVars>>

-----------------------------------------------------------------------------
(* getCodeQLBundleDownloadURL: the release asset locator.                  *)

\* What the API answers with.
ASSET_URL ==
    <<"h","t","t","p","s",":","/","/","a","p","i","/","a","s","s","e","t","/">>
GHAE_DOWNLOAD_URL == <<"h","t","t","p","s",":","/","/","g","h","a","e","/","d","l">>

\* The locator that asks the GitHub AE endpoint on every variant.
getCodeQLBundleDownloadURL_ghaeOnEveryVariant ==
    /\ pc = "download"
    /\ ~Truthy(url)
    /\ sources' = uniqueDownloadSources(apiUrl, codeQLActionRepository)
    /\ codeQLBundleName' = getCodeQLBundleName(platform)
    /\ index' = 1
    /\ pc' = "ghaeFind"
    /\ UNCHANGED <<otherVars, cacheVars, envVars, argVars, resolverVars, calls, result>>

\* The URL is not known: the call of the locator, up to its first request.
getCodeQLBundleDownloadURL ==
    /\ pc = "download"
    /\ ~Truthy(url)
    /\ sources' = uniqueDownloadSources(apiUrl, codeQLActionRepository)
    /\ codeQLBundleName' = getCodeQLBundleName(platform)
    /\ index' = 1
    /\ pc' = IF variant = "GHAE" THEN "ghaeFind" ELSE "loop"
    /\ UNCHANGED <<otherVars, cacheVars, envVars, argVars, resolverVars, calls, result>>

\* GET /enterprise/code-scanning/codeql-bundle/find/{tag}: an error, a
\* release without the bundle asset, or one with it.
GhaeFind ==
    /\ pc = "ghaeFind"
    /\ \E outcome \in {"error", "noAsset", "asset"} :
         /\ calls' = Append(calls, Call("locator", "ghaeFind", Template(tagName), outcome))
         /\ pc' = IF outcome = "asset" THEN "ghaeDownload" ELSE "loop"
    /\ UNCHANGED <<otherVars, cacheVars, envVars, argVars, resolverVars, locatorVars, result>>

\* GET /enterprise/code-scanning/codeql-bundle/download/{asset_id}
GhaeDownload ==
    /\ pc = "ghaeDownload"
    /\ \E outcome \in {"error", "url"} :
         /\ calls' = Append(calls, Call("locator", "ghaeDownload", <<>>, outcome))
         /\ IF outcome = "url"
            THEN /\ url' = GHAE_DOWNLOAD_URL
                 /\ pc' = "located"
            ELSE /\ pc' = "loop"
                 /\ UNCHANGED url
    /\ UNCHANGED <<otherVars, cacheVars, envVars, argVars, cliVersion, tagName,
                   humanReadableVersion, codeqlFolder, locatorVars, result>>

\* The final case: the public host and the canonical repository.
IsFinalCase(downloadSource) ==
    /\ downloadSource[1] = GITHUB_DOTCOM_URL
    /\ downloadSource[2] = CODEQL_DEFAULT_ACTION_REPOSITORY

\* The loop without its try/catch: a release lookup that throws ends the
\* call.
TrySource_abortOnError ==
    /\ pc = "loop"
    /\ IF index > Len(sources) \/ IsFinalCase(sources[index])
       THEN /\ url' = SynthesizedURL(tagName, codeQLBundleName)
            /\ pc' = "located"
            /\ UNCHANGED <<index, calls, result>>
       ELSE \E outcome \in {"error", "noAsset", "asset"} :
            /\ calls' = Append(calls,
                 Call("locator", "getReleaseByTag",
                      <<sources[index][2], Template(tagName)>>, outcome))
            /\ IF outcome = "asset"
               THEN /\ url' = ASSET_URL \o sources[index][2]
                    /\ pc' = "located"
                    /\ UNCHANGED <<index, result>>
               ELSE IF outcome = "error"
               THEN /\ result' = Thrown
                    /\ pc' = "error"
                    /\ UNCHANGED <<index, url>>
               ELSE /\ index' = index + 1
                    /\ pc' = "loop"
                    /\ UNCHANGED <<url, result>>
    /\ UNCHANGED <<otherVars, cacheVars, envVars, argVars, cliVersion, tagName,
                   humanReadableVersion, codeqlFolder, sources,
                   codeQLBundleName>>

\* The loop with a candidate that is looked up again after an error.
TrySource_retryOnError ==
    /\ pc = "loop"
    /\ IF index > Len(sources) \/ IsFinalCase(sources[index])
       THEN /\ url' = SynthesizedURL(tagName, codeQLBundleName)
            /\ pc' = "located"
            /\ UNCHANGED <<index, calls>>
       ELSE \E outcome \in {"error", "noAsset", "asset"} :
            /\ calls' = Append(calls,
                 Call("locator", "getReleaseByTag",
                      <<sources[index][2], Template(tagName)>>, outcome))
            /\ IF outcome = "asset"
               THEN /\ url' = ASSET_URL \o sources[index][2]
                    /\ pc' = "located"
                    /\ UNCHANGED index
               ELSE /\ index' = IF outcome = "error" THEN index ELSE index + 1
                    /\ pc' = "loop"
                    /\ UNCHANGED url
    /\ UNCHANGED <<otherVars, cacheVars, envVars, argVars, cliVersion, tagName,
                   humanReadableVersion, codeqlFolder, sources,
                   codeQLBundleName, result>>

\* One iteration of the loop over the candidate sources: the break at the
\* final case, or a release lookup that throws (a network error, a 404, a
\* malformed response), lists no matching asset, or lists one.
TrySource ==
    /\ pc = "loop"
    /\ IF index > Len(sources) \/ IsFinalCase(sources[index])
       THEN /\ url' = SynthesizedURL(tagName, codeQLBundleName)
            /\ pc' = "located"
            /\ UNCHANGED <<index, calls>>
       ELSE \E outcome \in {"error", "noAsset", "asset"} :
            /\ calls' = Append(calls,
                 Call("locator", "getReleaseByTag",
                      <<sources[index][2], Template(tagName)>>, outcome))
            /\ IF outcome = "asset"
               THEN /\ url' = ASSET_URL \o sources[index][2]
                    /\ pc' = "located"
                    /\ UNCHANGED index
               ELSE /\ index' = index + 1
                    /\ pc' = "loop"
                    /\ UNCHANGED url
    /\ UNCHANGED <<otherVars, cacheVars, envVars, argVars, cliVersion, tagName,
                   humanReadableVersion, codeqlFolder, sources,
                   codeQLBundleName, result>>

\* The download source, with the URL given or located.
ReturnDownload ==
    /\ \/ pc = "download" /\ Truthy(url)
       \/ pc = "located"
    /\ result' = [sourceType |-> "download",
                  bundleVersion |->
                      JsAnd(tagName, tryGetBundleVersionFromTagName(tagName)),
                  cliVersion |-> cliVersion,
                  codeqlURL |-> url,
                  toolsVersion |-> toolsVersion]
    /\ pc' = "done"
    /\ UNCHANGED <<otherVars, cacheVars, envVars, argVars, resolverVars, locatorVars, calls>>

\* The call has returned or thrown: the job goes on, and may call again.
Return ==
    /\ pc \in {"done", "error"}
    /\ pc' = "idle"
    /\ toolsInput' = Undefined
    /\ defaultCliVersion' =
         [cliVersion |-> defaults.cliVersion, tagName |-> defaults.bundleVersion]
    /\ cliVersion' = Undefined
    /\ tagName' = Undefined
    /\ url' = Undefined
    /\ humanReadableVersion' = Undefined
    /\ codeqlFolder' = Undefined
    /\ sources' = <<>>
    /\ index' = 1
    /\ codeQLBundleName' = Undefined
    /\ calls' = <<>>
    /\ result' = NoResult
    /\ UNCHANGED <<otherVars, cacheVars, envVars>>

-----------------------------------------------------------------------------
(* downloadCodeQL: the acquisition pipeline.                               *)

\* apiDetails.auth
AUTH == <<"s","3","c","r","e","t">>

\* new URL(codeqlURL).search without its "?": what follows the first "?" of
\* the part before the fragment; undefined when there is none.
SearchOf(codeqlURL) == AfterFirst(BeforeFirst(codeqlURL, "#"), "?")

\* new URLSearchParams(search).has(name), for names and values that need no
\* decoding.
HasParam(pairs, name) ==
    \E i \in 1..Len(pairs) : BeforeFirst(pairs[i], "=") = name

SearchParamsHas(search, name) ==
    search # Undefined /\ HasParam(Split(search, "&"), name)

\* The header is given to every URL that starts with the host's URL.
authorizationFor_prefixWithoutSlash(codeqlURL) ==
    IF SearchParamsHas(SearchOf(codeqlURL), <<"t","o","k","e","n">>)
    THEN Undefined
    ELSE IF StartsWith(codeqlURL, apiUrl)
    THEN <<"t","o","k","e","n"," ">> \o AUTH
    ELSE Undefined

\* The authorization header of the download.
authorizationFor(codeqlURL) ==
    IF SearchParamsHas(SearchOf(codeqlURL), <<"t","o","k","e","n">>)
    THEN Undefined
    ELSE IF StartsWith(codeqlURL, apiUrl \o <<"/">>)
    THEN <<"t","o","k","e","n"," ">> \o AUTH
    ELSE Undefined

\* path.join(tempDir, uuid) and the directory extractTar returns.
CODEQL_PATH == <<"/","t","m","p","/","u","u","i","d">>
CODEQL_EXTRACTED == <<"/","t","m","p","/","e","x","t","r","a","c","t","e","d">>

\* A step of the pipeline: a disk-space probe, a toolcache or file
\* operation, or the release lookup of the CLI version.
Event(op, a, out) == Call("pipeline", op, a, out)
Probe(out) == Event("checkDiskSpace", <<>>, out)

\* downloadCodeQL starts: the URL is parsed and the header chosen.
StartDownload(codeqlURL, maybeBundleVersion, maybeCliVersion) ==
    /\ download' = [NoLocals EXCEPT
                        !.codeqlURL = codeqlURL,
                        !.maybeBundleVersion = maybeBundleVersion,
                        !.maybeCliVersion = maybeCliVersion,
                        !.authorization = authorizationFor(codeqlURL)]
    /\ step' = "downloadTool"
    /\ downloaded' = NoResult

\* downloadCodeQL throws after the steps `events`.
DownloadThrows(events) ==
    /\ calls' = calls \o events
    /\ step' = "failed"
    /\ downloaded' = Thrown
    /\ UNCHANGED download

\* What a request, a file operation or a probe may give.
Outcomes == {"ok", "error"}

\* Math.round(performance.now() - toolsDownloadStart), in decimal.
Durations == {<<"0">>, <<"1","5","0","0">>}

\* The pipeline goes on to the extraction after a failed download.
DownloadTool_extractAfterFailure ==
    /\ step = "downloadTool"
    /\ \E probe \in Outcomes, out \in Outcomes, ms \in Durations :
        IF probe = "error"
        THEN DownloadThrows(<<Probe(probe)>>) /\ UNCHANGED files
        ELSE /\ calls' = calls \o
                    <<Probe(probe),
                      Event("downloadTool", download.codeqlURL, out)>>
             /\ files' = files \cup {CODEQL_PATH}
             /\ download' =
                    [download EXCEPT !.toolsDownloadDurationMs = ms]
             /\ step' = "extractTar"
             /\ UNCHANGED downloaded
    /\ UNCHANGED <<dependencyVars, statusVars, normalizerVars, setup, cacheVars, envVars, pc, argVars,
                   resolverVars, locatorVars, result>>

\* Lines 421-427: the probe, then toolcache.downloadTool.
DownloadTool ==
    /\ step = "downloadTool"
    /\ \E probe \in Outcomes, out \in Outcomes, ms \in Durations :
        IF probe = "error"
        THEN DownloadThrows(<<Probe(probe)>>) /\ UNCHANGED files
        ELSE IF out = "error"
        THEN /\ DownloadThrows(
                    <<Probe(probe),
                      Event("downloadTool", download.codeqlURL, out)>>)
             /\ UNCHANGED files
        ELSE /\ calls' = calls \o
                    <<Probe(probe),
                      Event("downloadTool", download.codeqlURL, out)>>
             /\ files' = files \cup {CODEQL_PATH}
             /\ download' =
                    [download EXCEPT !.toolsDownloadDurationMs = ms]
             /\ step' = "extractTar"
             /\ UNCHANGED downloaded
    /\ UNCHANGED <<dependencyVars, statusVars, normalizerVars, setup, cacheVars, envVars, pc, argVars,
                   resolverVars, locatorVars, result>>

\* Lines 428-430: the probe, then toolcache.extractTar.
ExtractTar ==
    /\ step = "extractTar"
    /\ \E probe \in Outcomes, out \in Outcomes :
        IF probe = "error"
        THEN DownloadThrows(<<Probe(probe)>>) /\ UNCHANGED files
        ELSE IF out = "error"
        THEN /\ DownloadThrows(
                    <<Probe(probe), Event("extractTar", CODEQL_PATH, out)>>)
             /\ UNCHANGED files
        ELSE /\ calls' = calls \o
                    <<Probe(probe), Event("extractTar", CODEQL_PATH, out)>>
             /\ files' = files \cup {CODEQL_EXTRACTED}
             /\ step' = "deleteArchive"
             /\ UNCHANGED <<download, downloaded>>
    /\ UNCHANGED <<dependencyVars, statusVars, normalizerVars, setup, cacheVars, envVars, pc, argVars,
                   resolverVars, locatorVars, result>>

\* The deletion of the archive aborts the pipeline when it fails.
AfterDeleteArchive_failureThrows(probe, out) ==
    IF probe = "error" \/ out = "error"
    THEN /\ DownloadThrows(
                <<Probe(probe)>> \o
                (IF probe = "error" THEN <<>>
                 ELSE <<Event("del", CODEQL_PATH, out)>>))
         /\ UNCHANGED files
    ELSE /\ calls' = calls \o <<Probe(probe), Event("del", CODEQL_PATH, out)>>
         /\ files' = files \ {CODEQL_PATH}
         /\ step' = "bundleVersion"
         /\ UNCHANGED <<download, downloaded>>

\* Lines 431-439: the probe, then the deletion of the archive inside a
\* try/catch whose handler logs a warning.
AfterDeleteArchive(probe, out) ==
    IF probe = "error"
    THEN DownloadThrows(<<Probe(probe)>>) /\ UNCHANGED files
    ELSE /\ calls' = calls \o
                <<Probe(probe), Event("del", CODEQL_PATH, out)>>
                \o (IF out = "error"
                    THEN <<Event("warning", CODEQL_PATH, "logged")>>
                    ELSE <<>>)
         /\ files' = (IF out = "error" THEN files ELSE files \ {CODEQL_PATH})
         /\ step' = "bundleVersion"
         /\ UNCHANGED <<download, downloaded>>

DeleteArchive ==
    /\ step = "deleteArchive"
    /\ \E probe \in Outcomes, out \in Outcomes : AfterDeleteArchive(probe, out)
    /\ UNCHANGED <<dependencyVars, statusVars, normalizerVars, setup, cacheVars, envVars, pc, argVars,
                   resolverVars, locatorVars, result>>

\* String.prototype.includes
Includes(s, p) == IndexOf(s, p) # 0

\* What downloadCodeQL returns.
DownloadResult(label, folder, ms) ==
    [sourceType |-> "returned", toolsVersion |-> label,
     codeqlFolder |-> folder, toolsDownloadDurationMs |-> ms]

\* Without a bundle version the label is "unknown" whatever was passed in.
AfterBundleVersion_labelUnknown(bundleVersion) ==
    IF bundleVersion = Undefined
    THEN /\ downloaded' =
                DownloadResult(STR_unknown,
                               CODEQL_EXTRACTED,
                               download.toolsDownloadDurationMs)
         /\ step' = "returned"
         /\ UNCHANGED download
    ELSE /\ download' = [download EXCEPT !.bundleVersion = bundleVersion]
         /\ step' =
                (IF /\ download.maybeCliVersion = Undefined
                    /\ variant = "DOTCOM"
                    /\ Includes(download.codeqlURL,
                           <<"/">> \o CODEQL_DEFAULT_ACTION_REPOSITORY
                                \o <<"/">>)
                 THEN "cliVersion" ELSE "cacheDir")
         /\ UNCHANGED downloaded

\* Lines 441-459: the bundle version of the argument or of the URL; without
\* one the extracted directory is returned and nothing is cached.  With
\* one, the release of the bundle is looked up for its CLI version when no
\* CLI version was passed in, on the public host and for a URL of the
\* canonical repository.
AfterBundleVersion(bundleVersion) ==
    IF bundleVersion = Undefined
    THEN /\ downloaded' =
                DownloadResult(Nullish(download.maybeCliVersion, STR_unknown),
                               CODEQL_EXTRACTED,
                               download.toolsDownloadDurationMs)
         /\ step' = "returned"
         /\ UNCHANGED download
    ELSE /\ download' = [download EXCEPT !.bundleVersion = bundleVersion]
         /\ step' =
                (IF /\ download.maybeCliVersion = Undefined
                    /\ variant = "DOTCOM"
                    /\ Includes(download.codeqlURL,
                           <<"/">> \o CODEQL_DEFAULT_ACTION_REPOSITORY
                                \o <<"/">>)
                 THEN "cliVersion" ELSE "cacheDir")
         /\ UNCHANGED downloaded

\* Line 440 and lines 441-459.
BundleVersion ==
    /\ step = "bundleVersion"
    /\ \E probe \in Outcomes :
        IF probe = "error"
        THEN DownloadThrows(<<Probe(probe)>>)
        ELSE /\ calls' = calls \o <<Probe(probe)>>
             /\ AfterBundleVersion(
                    Nullish(download.maybeBundleVersion,
                            tryGetBundleVersionFromUrl(download.codeqlURL)))
    /\ UNCHANGED <<dependencyVars, statusVars, normalizerVars, setup, files, cacheVars, envVars, pc,
                   argVars, resolverVars, locatorVars, result>>

\* The CLI versions named by the marker files of a release: a stable
\* version, a pre-release and a version with build metadata.
V_2_12_1_beta == V_2_12_1 \o <<"-","b","e","t","a",".","1">>
V_2_12_1_build == V_2_12_1 \o <<"+","2","0","2","3">>
MarkerVersions == {V_2_12_1, V_2_12_1_beta, V_2_12_1_build}

\* What the release lookup may give: an error, a release without a marker
\* file, with several, or with one that names a CLI version.
ReleaseOutcomes == {"error", "noMarker", "severalMarkers", "oneMarker"}

\* tryFindCliVersionDotcomOnly: the release with the bundle's tag in the
\* job's action repository; the version of its only marker file.
CliVersion ==
    /\ step = "cliVersion"
    /\ \E out \in ReleaseOutcomes, marker \in MarkerVersions :
        /\ calls' = calls \o
                <<Event("getReleaseByTag",
                        codeQLActionRepository \o <<"@">> \o STR_tagPrefix
                            \o download.bundleVersion,
                        out)>>
        /\ download' =
                [download EXCEPT !.maybeCliVersion =
                    IF out = "oneMarker" THEN marker ELSE Undefined]
    /\ step' = "cacheDir"
    /\ UNCHANGED <<dependencyVars, statusVars, normalizerVars, setup, files, downloaded, cacheVars,
                   envVars, pc, argVars, resolverVars, locatorVars, result>>

\* /^[0-9]+\.[0-9]+\.[0-9]+$/
AllDigits(s) == s # <<>> /\ \A i \in 1..Len(s) : s[i] \in Digits

IsStableVersion(v) ==
    /\ v # Undefined
    /\ ~HasLineTerminator(v)
    /\ Len(Split(v, ".")) = 3
    /\ \A i \in 1..3 : AllDigits(Split(v, ".")[i])

\* The key never has the CLI version.
toolcacheVersionOf_neverComposite(maybeCliVersion, bundleVersion) ==
    convertToSemVer(bundleVersion)

\* Lines 466-468: the version the bundle is cached under.
toolcacheVersionOf(maybeCliVersion, bundleVersion) ==
    IF IsStableVersion(maybeCliVersion)
    THEN maybeCliVersion \o <<"-">> \o bundleVersion
    ELSE convertToSemVer(bundleVersion)

\* toolcache.cacheDir names the entry semver.clean(version) || version.
CacheEntryOf(v) == IF Truthy(SemVerClean(v)) THEN SemVerClean(v) ELSE v

\* A cache write that leaves nothing but the new entry.
AfterCacheDir_replacesCache(toolcacheVersion, out) ==
    IF toolcacheVersion = Throws
    THEN DownloadThrows(<<>>) /\ UNCHANGED cacheVars
    ELSE IF out = "error"
    THEN /\ DownloadThrows(<<Event("cacheDir", toolcacheVersion, out)>>)
         /\ UNCHANGED cacheVars
    ELSE /\ calls' = calls \o <<Event("cacheDir", toolcacheVersion, out)>>
         /\ toolcacheVersions' = {CacheEntryOf(toolcacheVersion)}
         /\ pinnedVersions' = {}
         /\ download' =
                [download EXCEPT
                    !.toolcacheVersion = toolcacheVersion,
                    !.codeqlFolder =
                        TOOLCACHE_DIR \o CacheEntryOf(toolcacheVersion)]
         /\ step' = "deleteExtracted"
         /\ UNCHANGED downloaded

\* Lines 466-469: convertToSemVer may throw; toolcache.cacheDir removes the
\* entry of that version, if there is one, and copies the directory.
AfterCacheDir(toolcacheVersion, out) ==
    IF toolcacheVersion = Throws
    THEN DownloadThrows(<<>>) /\ UNCHANGED cacheVars
    ELSE IF out = "error"
    THEN /\ DownloadThrows(<<Event("cacheDir", toolcacheVersion, out)>>)
         /\ UNCHANGED cacheVars
    ELSE /\ calls' = calls \o <<Event("cacheDir", toolcacheVersion, out)>>
         /\ toolcacheVersions' =
                toolcacheVersions \cup {CacheEntryOf(toolcacheVersion)}
         /\ pinnedVersions' = pinnedVersions \ {CacheEntryOf(toolcacheVersion)}
         /\ download' =
                [download EXCEPT
                    !.toolcacheVersion = toolcacheVersion,
                    !.codeqlFolder =
                        TOOLCACHE_DIR \o CacheEntryOf(toolcacheVersion)]
         /\ step' = "deleteExtracted"
         /\ UNCHANGED downloaded

CacheDir ==
    /\ step = "cacheDir"
    /\ \E out \in Outcomes :
        AfterCacheDir(toolcacheVersionOf(download.maybeCliVersion,
                                         download.bundleVersion), out)
    /\ UNCHANGED <<dependencyVars, statusVars, normalizerVars, setup, files, envVars, pc, argVars,
                   resolverVars, locatorVars, result>>

\* Lines 470-477: a probe, the deletion of the extracted directory (outside
\* any try/catch), a probe, and the result.
AfterDeleteExtracted(before, out, after) ==
    IF before = "error"
    THEN DownloadThrows(<<Probe(before)>>) /\ UNCHANGED files
    ELSE IF out = "error"
    THEN /\ DownloadThrows(
                <<Probe(before), Event("del", CODEQL_EXTRACTED, out)>>)
         /\ UNCHANGED files
    ELSE IF after = "error"
    THEN /\ DownloadThrows(
                <<Probe(before), Event("del", CODEQL_EXTRACTED, out),
                  Probe(after)>>)
         /\ files' = files \ {CODEQL_EXTRACTED}
    ELSE /\ calls' = calls \o
                <<Probe(before), Event("del", CODEQL_EXTRACTED, out),
                  Probe(after)>>
         /\ files' = files \ {CODEQL_EXTRACTED}
         /\ downloaded' =
                DownloadResult(
                    Nullish(download.maybeCliVersion,
                            download.toolcacheVersion),
                    download.codeqlFolder, download.toolsDownloadDurationMs)
         /\ step' = "returned"

DeleteExtracted ==
    /\ step = "deleteExtracted"
    /\ \E before \in Outcomes, out \in Outcomes, after \in Outcomes :
        AfterDeleteExtracted(before, out, after)
    /\ UNCHANGED <<dependencyVars, statusVars, normalizerVars, setup, download, cacheVars, envVars, pc,
                   argVars, resolverVars, locatorVars, result>>

-----------------------------------------------------------------------------
(* setupCodeQLBundle: the orchestrator.  Its first statement is the call   *)
(* of getCodeQLSource, whose steps are the actions above.                  *)

\* What setupCodeQLBundle returns.
SetupResult(folder, ms, source, label) ==
    [sourceType |-> "returned", codeqlFolder |-> folder,
     toolsDownloadDurationMs |-> ms, toolsSource |-> source,
     toolsVersion |-> label]

\* Lines 508-511: the archive of a local source is extracted.
SetupLocal ==
    /\ pc = "done" /\ step = "none"
    /\ result.sourceType = "local"
    /\ \E out \in Outcomes :
        /\ calls' = Append(calls, Event("extractTar", result.codeqlTarPath, out))
        /\ files' = (IF out = "ok" THEN files \cup {CODEQL_EXTRACTED} ELSE files)
        /\ setup' =
                (IF out = "ok"
                 THEN SetupResult(CODEQL_EXTRACTED, Undefined, "LOCAL",
                                  result.toolsVersion)
                 ELSE Thrown)
    /\ step' = "setupDone"
    /\ UNCHANGED <<dependencyVars, statusVars, normalizerVars, download, downloaded, cacheVars, envVars,
                   pc, argVars, resolverVars, locatorVars, result>>

\* Lines 512-516: the folder of a cached version is used as it is.
SetupToolcache ==
    /\ pc = "done" /\ step = "none"
    /\ result.sourceType = "toolcache"
    /\ setup' = SetupResult(result.codeqlFolder, Undefined, "TOOLCACHE",
                            result.toolsVersion)
    /\ step' = "setupDone"
    /\ UNCHANGED <<dependencyVars, statusVars, normalizerVars, download, files, downloaded, cacheVars,
                   envVars, pc, argVars, resolverVars, locatorVars, calls,
                   result>>

\* Line 518: the call of downloadCodeQL for a download source.
SetupDownload ==
    /\ pc = "done" /\ step = "none"
    /\ result.sourceType = "download"
    /\ StartDownload(result.codeqlURL, result.bundleVersion,
                     result.cliVersion)
    /\ UNCHANGED <<dependencyVars, statusVars, normalizerVars, setup, files, cacheVars, envVars, pc,
                   argVars, resolverVars, locatorVars, calls, result>>

\* The label of the resolver is kept after a download.
SetupAfterDownload_resolverLabel ==
    /\ step \in {"returned", "failed"}
    /\ setup' =
            (IF step = "failed" THEN Thrown
             ELSE SetupResult(downloaded.codeqlFolder,
                              downloaded.toolsDownloadDurationMs,
                              "DOWNLOAD", result.toolsVersion))
    /\ step' = "setupDone"
    /\ UNCHANGED <<dependencyVars, statusVars, normalizerVars, download, files, downloaded, cacheVars,
                   envVars, pc, argVars, resolverVars, locatorVars, calls,
                   result>>

\* Lines 518-523 and 528: the result of downloadCodeQL is taken over; its
\* error is the error of setupCodeQLBundle.
SetupAfterDownload ==
    /\ step \in {"returned", "failed"}
    /\ setup' =
            (IF step = "failed" THEN Thrown
             ELSE SetupResult(downloaded.codeqlFolder,
                              downloaded.toolsDownloadDurationMs,
                              "DOWNLOAD", downloaded.toolsVersion))
    /\ step' = "setupDone"
    /\ UNCHANGED <<dependencyVars, statusVars, normalizerVars, download, files, downloaded, cacheVars,
                   envVars, pc, argVars, resolverVars, locatorVars, calls,
                   result>>

\* Line 502: an error of getCodeQLSource is the error of setupCodeQLBundle.
SetupThrows ==
    /\ pc = "error" /\ step = "none"
    /\ setup' = Thrown
    /\ step' = "setupDone"
    /\ UNCHANGED <<dependencyVars, statusVars, normalizerVars, download, files, downloaded, cacheVars,
                   envVars, pc, argVars, resolverVars, locatorVars, calls,
                   result>>

-----------------------------------------------------------------------------

Next ==
    \/ getCodeQLSource
    \/ ExactLookup
    \/ SuffixLookup
    \/ CoercedLookup
    \/ ReturnToolcache
    \/ PinnedSearch
    \/ getCodeQLBundleDownloadURL
    \/ GhaeFind
    \/ GhaeDownload
    \/ TrySource
    \/ ReturnDownload
    \/ Return

Spec == Init /\ [][Next]_vars

\* Every request is answered, so a locator that can take a step takes it.
SpecLocator ==
    /\ InitLocator /\ [][Next]_vars
    /\ WF_vars(GhaeFind) /\ WF_vars(GhaeDownload)
    /\ WF_vars(TrySource) /\ WF_vars(ReturnDownload)

-----------------------------------------------------------------------------
(* Calls of downloadCodeQL on its own.                                     *)

\* A host whose URL starts with the URL of the enterprise host.
LOOKALIKE_URL == GHES_URL \o <<".","e","v","i","l">>
DownloadHosts == {GITHUB_DOTCOM_URL, GHES_URL, LOOKALIKE_URL}

\* Paths: a release asset of the canonical repository with a timestamp tag,
\* with a semantic-version tag and with a tag whose bundle version is empty,
\* and a path without a tag.
PATH_tag ==
    <<"/">> \o CODEQL_DEFAULT_ACTION_REPOSITORY \o STR_releasesDownload
        \o STR_tagPrefix \o BV_20230101 \o <<"/","b">>
PATH_semVerTag ==
    <<"/">> \o CODEQL_DEFAULT_ACTION_REPOSITORY \o STR_releasesDownload
        \o STR_tagPrefix \o <<"v">> \o V_2_12_1_beta \o <<"/","b">>
PATH_emptyTag ==
    <<"/">> \o CODEQL_DEFAULT_ACTION_REPOSITORY \o STR_releasesDownload
        \o STR_tagPrefix \o <<"/","b">>
PATH_noTag == <<"/","b">>

\* Queries and fragments: none, a token, a token after another parameter,
\* a parameter whose name ends in "token", and a token in the fragment.
DownloadQueries ==
    { <<>>,
      <<"?","t","o","k","e","n","=","t">>,
      <<"?","a","=","1","&","t","o","k","e","n","=","t">>,
      <<"?","x","t","o","k","e","n","=","t">>,
      <<"#","?","t","o","k","e","n","=","t">> }

DownloadUrls ==
    {h \o PATH_tag \o q : h \in DownloadHosts, q \in DownloadQueries}
        \cup {h \o p : h \in DownloadHosts, p \in {PATH_semVerTag, PATH_noTag}}
        \cup {GITHUB_DOTCOM_URL \o PATH_emptyTag}

\* The bundle and CLI versions passed in: none, a timestamp and a semantic
\* version; none, stable, pre-release and with build metadata.
DownloadBundleVersions == {Undefined, BV_20230101, <<"v">> \o V_2_12_1_beta}
DownloadCliVersions == {Undefined} \cup MarkerVersions

\* The public host and an enterprise host; an empty cache, and a cache with
\* a pinned entry under the key of the stable version and the timestamp.
InitDownload ==
    /\ toolcacheVersions \in {{}, {V_2_12_1 \o <<"-">> \o BV_20230101}}
    /\ pinnedVersions = toolcacheVersions
    /\ codeQLActionRepository \in ActionRepositories
    /\ platform = "linux"
    /\ apiUrl \in ApiUrls
    /\ variant = (IF apiUrl = GITHUB_DOTCOM_URL THEN "DOTCOM" ELSE "GHES")
    /\ NoCall
    /\ NoNormalizerCall
    /\ NoDownload
    /\ NoStatusReport
    /\ NoDependencyCaching

\* downloadCodeQL(codeqlURL, maybeBundleVersion, maybeCliVersion, ...)
downloadCodeQL ==
    /\ step = "none"
    /\ \E codeqlURL \in DownloadUrls,
          maybeBundleVersion \in DownloadBundleVersions,
          maybeCliVersion \in DownloadCliVersions :
        StartDownload(codeqlURL, maybeBundleVersion, maybeCliVersion)
    /\ UNCHANGED <<dependencyVars, statusVars, normalizerVars, setup, files, cacheVars, envVars, pc,
                   argVars, resolverVars, locatorVars, calls, result>>

NextDownload ==
    \/ downloadCodeQL
    \/ DownloadTool
    \/ ExtractTar
    \/ DeleteArchive
    \/ BundleVersion
    \/ CliVersion
    \/ CacheDir
    \/ DeleteExtracted

SpecDownload == InitDownload /\ [][NextDownload]_vars

-----------------------------------------------------------------------------
(* Calls of setupCodeQLBundle.                                             *)

\* An empty cache, a cache with an entry for the requested version, and a
\* cache with two entries for it.
SetupCaches ==
    {{}, {V_2_12_1 \o <<"-">> \o BV_20230101},
     {V_2_12_1 \o <<"-">> \o BV_20230101,
      V_2_12_1 \o <<"-">> \o BV_20230102}}

\* The public host, and an enterprise host of either kind; each of the
\* caches, its entries pinned or not.
InitSetup ==
    /\ toolcacheVersions \in SetupCaches
    /\ pinnedVersions \in SUBSET toolcacheVersions
    /\ codeQLActionRepository \in ActionRepositories
    /\ platform = "linux"
    /\ apiUrl \in ApiUrls
    /\ variant \in (IF apiUrl = GITHUB_DOTCOM_URL
                    THEN {"DOTCOM"} ELSE {"GHES", "GHAE"})
    /\ NoCall
    /\ NoNormalizerCall
    /\ NoDownload
    /\ NoStatusReport
    /\ NoDependencyCaching

NextSetup ==
    \/ getCodeQLSource
    \/ ExactLookup
    \/ SuffixLookup
    \/ CoercedLookup
    \/ ReturnToolcache
    \/ PinnedSearch
    \/ getCodeQLBundleDownloadURL
    \/ GhaeFind
    \/ GhaeDownload
    \/ TrySource
    \/ ReturnDownload
    \/ SetupLocal
    \/ SetupToolcache
    \/ SetupDownload
    \/ DownloadTool
    \/ ExtractTar
    \/ DeleteArchive
    \/ BundleVersion
    \/ CliVersion
    \/ CacheDir
    \/ DeleteExtracted
    \/ SetupAfterDownload
    \/ SetupThrows

SpecSetup == InitSetup /\ [][NextSetup]_vars

-----------------------------------------------------------------------------
(* A second call of getCodeQLSource after setupCodeQLBundle has downloaded *)
(* and cached the bundle of a URL.                                         *)

\* A later step of the job calls getCodeQLSource with the same URL as tools
\* input; the cache is as setupCodeQLBundle left it.
getCodeQLSourceAgain ==
    /\ step = "setupDone"
    /\ setup.sourceType = "returned"
    /\ setup.toolsSource = "DOWNLOAD"
    /\ download.codeqlFolder # Undefined
    /\ Truthy(toolsInput) /\ StartsWith(toolsInput, STR_http)
    /\ CallGetCodeQLSource(toolsInput, defaultCliVersion)
    /\ calls' = <<>>
    /\ step' = "again"
    /\ UNCHANGED <<dependencyVars, statusVars, normalizerVars, download, files, downloaded, setup,
                   cacheVars, envVars>>

NextAgain ==
    \/ getCodeQLSource
    \/ ExactLookup
    \/ SuffixLookup
    \/ CoercedLookup
    \/ ReturnToolcache
    \/ PinnedSearch
    \/ getCodeQLBundleDownloadURL
    \/ GhaeFind
    \/ GhaeDownload
    \/ TrySource
    \/ ReturnDownload
    \/ SetupLocal
    \/ SetupToolcache
    \/ SetupDownload
    \/ DownloadTool
    \/ ExtractTar
    \/ DeleteArchive
    \/ BundleVersion
    \/ CliVersion
    \/ CacheDir
    \/ DeleteExtracted
    \/ SetupAfterDownload
    \/ SetupThrows
    \/ getCodeQLSourceAgain

SpecAgain == InitSetup /\ [][NextAgain]_vars

-----------------------------------------------------------------------------
(* Calls of getCodeQLSource with a default version whose tag cannot be     *)
(* wrapped as a pre-release.                                               *)

\* A stable CLI version with a tag whose bundle version has a leading zero.
MalformedDefault ==
    [cliVersion |-> V_2_12_1, tagName |-> STR_tagPrefix \o <<"0","1","2">>]

InitMalformed ==
    InitWith({{}, {V_2_12_1}, {V_2_12_1 \o <<"-">> \o BV_20230101}},
             ActionRepositories, {"linux"})

getCodeQLSourceOfAnyTag ==
    /\ pc = "idle"
    /\ \E input \in ToolsInputs,
          default \in DefaultCliVersions \cup {MalformedDefault} :
         CallGetCodeQLSource(input, default)
    /\ calls' = <<>>
    /\ UNCHANGED <<otherVars, cacheVars, envVars>>

NextMalformed ==
    \/ getCodeQLSourceOfAnyTag
    \/ ExactLookup
    \/ SuffixLookup
    \/ CoercedLookup
    \/ ReturnToolcache
    \/ PinnedSearch
    \/ getCodeQLBundleDownloadURL
    \/ GhaeFind
    \/ GhaeDownload
    \/ TrySource
    \/ ReturnDownload

SpecMalformed == InitMalformed /\ [][NextMalformed]_vars

-----------------------------------------------------------------------------
(* Calls of the version normalizer on its own.                             *)

\* Version strings: an optional prefix, a main part, an optional
\* pre-release, optional build metadata and an optional trailing blank.
VersionPrefixes == {<<>>, <<"v">>, <<"=">>, <<" ">>}
VersionMains ==
    { <<"1",".","2",".","3">>, <<"0","1",".","2",".","3">>,
      <<"1",".","2">>, <<"0",".","0",".","0">> }
VersionPrereleases ==
    { <<>>, <<"-","a">>, <<"-","0","1">>, <<"-","0">>, <<"-","a",".","b">>,
      <<"-">> }
VersionBuilds == {<<>>, <<"+","b">>, <<"+">>}
VersionSuffixes == {<<>>, <<" ">>}
VersionInputs ==
    { p \o m \o r \o b \o x :
        p \in VersionPrefixes, m \in VersionMains, r \in VersionPrereleases,
        b \in VersionBuilds, x \in VersionSuffixes }
      \cup {<<>>, BV_20230101, STR_latest, <<"0","1","2">>, <<"a","\n","b">>}

\* Tag names and other strings: the prefix followed by each version string,
\* and strings that only resemble a tag name.
TagNameInputs ==
    { STR_tagPrefix \o v : v \in VersionInputs }
      \cup { <<"x">> \o STR_tagPrefix \o <<"1">>,
             <<" ">> \o STR_tagPrefix \o <<"1">>,
             <<"C">> \o Tail(STR_tagPrefix) \o <<"1">>,
             SubSeq(STR_tagPrefix, 1, Len(STR_tagPrefix) - 1),
             <<"\n">> \o STR_tagPrefix \o <<"1">>,
             <<"a","/">> \o STR_tagPrefix \o <<"1">> }

NormalizerInputs == VersionInputs \cup TagNameInputs

\* What a normalizer call returned: the function, its value, and the value
\* it was applied to.
Returned(fn, of, value) == [fn |-> fn, of |-> of, value |-> value]

InitNormalizer ==
    /\ toolcacheVersions = {}
    /\ pinnedVersions = {}
    /\ codeQLActionRepository = CODEQL_DEFAULT_ACTION_REPOSITORY
    /\ platform = "linux"
    /\ apiUrl = GITHUB_DOTCOM_URL
    /\ variant = "DOTCOM"
    /\ NoCall
    /\ given \in NormalizerInputs
    /\ returned = NotReturned
    /\ NoDownload
    /\ NoStatusReport
    /\ NoDependencyCaching

\* convertToSemVer(given)
ApplyConvertToSemVer ==
    /\ returned = NotReturned
    /\ returned' = Returned("convertToSemVer", given, convertToSemVer(given))
    /\ UNCHANGED <<cacheVars, envVars, pc, argVars, resolverVars, locatorVars,
                   calls, result, given, pipelineVars, statusVars,
                   dependencyVars>>

\* convertToSemVer of what convertToSemVer(given) returned.
ReapplyConvertToSemVer ==
    /\ returned.fn = "convertToSemVer"
    /\ returned.of = given
    /\ returned.value # Throws
    /\ returned' = Returned("convertToSemVer", returned.value,
                            convertToSemVer(returned.value))
    /\ UNCHANGED <<cacheVars, envVars, pc, argVars, resolverVars, locatorVars,
                   calls, result, given, pipelineVars, statusVars,
                   dependencyVars>>

\* tryGetBundleVersionFromTagName(given)
ApplyTryGetBundleVersionFromTagName ==
    /\ returned = NotReturned
    /\ returned' = Returned("tryGetBundleVersionFromTagName", given,
                            tryGetBundleVersionFromTagName(given))
    /\ UNCHANGED <<cacheVars, envVars, pc, argVars, resolverVars, locatorVars,
                   calls, result, given, pipelineVars, statusVars,
                   dependencyVars>>

NextNormalizer ==
    \/ ApplyConvertToSemVer
    \/ ReapplyConvertToSemVer
    \/ ApplyTryGetBundleVersionFromTagName

SpecNormalizer == InitNormalizer /\ [][NextNormalizer]_vars

-----------------------------------------------------------------------------
(* Status reports: isFirstPartyAnalysis, setJobStatusIfUnsuccessful,       *)
(* createStatusReportBase and sendStatusReport. process.env is a function  *)
(* from the names of the variables that are set to their values; of the    *)
(* variables of a job it holds those that these functions read.            *)

\* The longest sequence of status reports of a job that is explored.
MaxReports == 3

\* enum ActionName
ActionName ==
    [Autobuild |-> "autobuild", Analyze |-> "finish", Init |-> "init",
     InitPost |-> "init-post", ResolveEnvironment |-> "resolve-environment",
     UploadSarif |-> "upload-sarif"]

ActionNames == {ActionName[k] : k \in DOMAIN ActionName}

\* type ActionStatus
ActionStatus == {"aborted", "failure", "starting", "success", "user-error"}

\* enum JobStatus
JobStatus ==
    [UnknownStatus |-> "JOB_STATUS_UNKNOWN",
     SuccessStatus |-> "JOB_STATUS_SUCCESS",
     FailureStatus |-> "JOB_STATUS_FAILURE",
     ConfigErrorStatus |-> "JOB_STATUS_CONFIGURATION_ERROR"]

\* The names of the variables of the action (enum EnvVar).
EnvVar ==
    [JOB_STATUS |-> "CODEQL_ACTION_JOB_STATUS",
     INIT_ACTION_HAS_RUN |-> "CODEQL_ACTION_INIT_HAS_RUN",
     TEST_MODE |-> "CODEQL_ACTION_TEST_MODE",
     WORKFLOW_STARTED_AT |-> "CODEQL_WORKFLOW_STARTED_AT"]

\* What a function that throws gives in place of a string.
THROWN == "<Error>"

\* name in process.env
IsSet(name) == name \in DOMAIN processEnv

\* process.env[name] === expected
EnvIs(name, expected) == IsSet(name) /\ processEnv[name] = expected

\* process.env[name] ?? fallback
EnvOr(name, fallback) == IF IsSet(name) THEN processEnv[name] ELSE fallback

\* core.exportVariable(name, val): process.env with name set to val.
exportVariable(name, val) ==
    [k \in DOMAIN processEnv \cup {name} |->
        IF k = name THEN val ELSE processEnv[k]]

\* getRequiredEnvParam(paramName): the value of the variable, an error when
\* it is unset or empty.
getRequiredEnvParam(paramName) ==
    IF IsSet(paramName) /\ processEnv[paramName] # ""
    THEN processEnv[paramName] ELSE THROWN

\* getWorkflowEventName()
getWorkflowEventName == getRequiredEnvParam("GITHUB_EVENT_NAME")

\* isInTestMode()
isInTestMode == EnvIs(EnvVar.TEST_MODE, "true")

isFirstPartyAnalysis_truthy(actionName) ==
    IF actionName # ActionName.UploadSarif
    THEN TRUE
    ELSE IsSet(EnvVar.INIT_ACTION_HAS_RUN)
         /\ processEnv[EnvVar.INIT_ACTION_HAS_RUN] # ""

\* isFirstPartyAnalysis(actionName)
isFirstPartyAnalysis(actionName) ==
    IF actionName # ActionName.UploadSarif
    THEN TRUE
    ELSE EnvIs(EnvVar.INIT_ACTION_HAS_RUN, "true")

setJobStatusIfUnsuccessful_overwrite(actionStatus) ==
    IF actionStatus = "user-error"
    THEN exportVariable(EnvVar.JOB_STATUS, JobStatus.ConfigErrorStatus)
    ELSE IF actionStatus = "failure" \/ actionStatus = "aborted"
    THEN exportVariable(EnvVar.JOB_STATUS, JobStatus.FailureStatus)
    ELSE processEnv

\* setJobStatusIfUnsuccessful(actionStatus): process.env after the call.
setJobStatusIfUnsuccessful(actionStatus) ==
    IF actionStatus = "user-error"
    THEN exportVariable(EnvVar.JOB_STATUS,
                        EnvOr(EnvVar.JOB_STATUS, JobStatus.ConfigErrorStatus))
    ELSE IF actionStatus = "failure" \/ actionStatus = "aborted"
    THEN exportVariable(EnvVar.JOB_STATUS,
                        EnvOr(EnvVar.JOB_STATUS, JobStatus.FailureStatus))
    ELSE processEnv

\* The latest start of an action of the job that is explored.
LastStart == 21

\* createStatusReportBase returned undefined.
UndefinedReport == [status |-> "undefined"]

\* Date.prototype.toISOString, for these dates.
toISOString(date) ==
    "2023-05-19T05:"
        \o <<"0", "1", "2", "3", "4", "5">>[(date \div 10) + 1]
        \o <<"0", "1", "2", "3", "4", "5", "6", "7", "8", "9">>[(date % 10) + 1]
        \o ":00.000Z"

\* The value of an optional field that is not set.
Absent == "<absent>"

\* The start time of every call is the start time of the workflow.
workflowStartedAt_ofEveryCall(actionStartedAt) == toISOString(actionStartedAt)

\* Lines 261-265: the start time of the workflow, which is the one of the
\* action when the variable is not set.
workflowStartedAt(actionStartedAt) ==
    IF ~IsSet(EnvVar.WORKFLOW_STARTED_AT)
    THEN toISOString(actionStartedAt)
    ELSE processEnv[EnvVar.WORKFLOW_STARTED_AT]

\* Lines 324-331: the time of completion, for a status that is final.
completedAt(status) ==
    IF status = "success" \/ status = "failure" \/ status = "aborted"
        \/ status = "user-error"
    THEN "<now>"
    ELSE Absent

\* The report of a call that gathered all its fields.
StatusReportBase(actionName, status, actionStartedAt) ==
    [action_name |-> actionName,
     action_started_at |-> toISOString(actionStartedAt),
     completed_at |-> completedAt(status),
     first_party_analysis |-> isFirstPartyAnalysis(actionName),
     started_at |-> workflowStartedAt(actionStartedAt),
     status |-> status]

\* Where gathering the fields of a report can end: not at all, before the
\* start time of the workflow is read (getRef, getAnalysisKey), and after it
\* (getRequiredEnvParam("RUNNER_OS"), getRequiredInput("matrix")).
Gatherings == {"ok", "throwsBefore", "throwsAfter"}

\* createStatusReportBase(actionName, status, actionStartedAt, ...) by the
\* action that is running, which passes its start time: the fields of the
\* report that depend on these arguments; undefined when gathering the other
\* fields throws.
createStatusReportBase ==
    /\ sent.n < MaxReports
    /\ \E actionName \in ActionNames, status \in ActionStatus,
          gathered \in Gatherings :
          /\ processEnv' =
                IF gathered = "throwsBefore"
                      \/ IsSet(EnvVar.WORKFLOW_STARTED_AT)
                THEN processEnv
                ELSE exportVariable(EnvVar.WORKFLOW_STARTED_AT,
                                    toISOString(startedAt))
          /\ statusReport' =
                IF gathered = "ok"
                THEN StatusReportBase(actionName, status, startedAt)
                ELSE UndefinedReport
    /\ UNCHANGED <<sent, uploads, startedAt, cacheVars, envVars, pc, argVars,
                   resolverVars, locatorVars, calls, result, normalizerVars,
                   pipelineVars, dependencyVars>>

\* What the status API can answer: success, an HTTP error with a status,
\* and an error that is not an HTTP error.
Replies == {"200", "403", "404", "422", "500", "error"}

\* isHTTPError(e) of the error thrown for the reply
isHTTPError(reply) == reply \in {"403", "404", "422", "500"}

\* A call of sendStatusReport: its number, the reply to its request ("none"
\* when it sent none), what it logged for the reply, and how it ended.
Sent(reply, logged, value) ==
    [n |-> sent.n + 1, reply |-> reply, logged |-> logged, value |-> value]

\* The catch block of sendStatusReport, for the error of the reply.
Caught(reply) ==
    IF isHTTPError(reply) /\ reply = "403"
    THEN IF getWorkflowEventName = THROWN
         THEN Sent(reply, "none", "threw")
         ELSE IF getWorkflowEventName = "push"
                 /\ EnvIs("GITHUB_ACTOR", "dependabot[bot]")
         THEN Sent(reply, "warning: Dependabot", "returned")
         ELSE Sent(reply, "warning: e.message", "returned")
    ELSE IF isHTTPError(reply) /\ reply = "404"
    THEN Sent(reply, "warning: e.message", "returned")
    ELSE IF isHTTPError(reply) /\ reply = "422"
    THEN IF getRequiredEnvParam("GITHUB_SERVER_URL") = THROWN
         THEN Sent(reply, "none", "threw")
         ELSE IF getRequiredEnvParam("GITHUB_SERVER_URL") # "https://github.com"
         THEN Sent(reply, "debug: INCOMPATIBLE_MSG", "returned")
         ELSE Sent(reply, "debug: OUT_OF_DATE_MSG", "returned")
    ELSE Sent(reply, "warning: unexpected error", "returned")

AfterRequest_unexpectedThrows(reply) ==
    IF reply = "200"
    THEN Sent(reply, "none", "returned")
    ELSE IF reply \in {"403", "404", "422"}
    THEN Caught(reply)
    ELSE Sent(reply, "none", "threw")

\* The try statement of sendStatusReport, for the reply to the request.
AfterRequest(reply) ==
    IF reply = "200"
    THEN Sent(reply, "none", "returned")
    ELSE Caught(reply)

\* sendStatusReport(statusReport)
sendStatusReport ==
    /\ statusReport \notin {NoReport, UndefinedReport}
    /\ sent.n < MaxReports
    /\ processEnv' = setJobStatusIfUnsuccessful(statusReport.status)
    /\ IF isInTestMode
       THEN /\ sent' = Sent("none", "debug: test mode", "returned")
            /\ uploads' = uploads
       ELSE IF getRequiredEnvParam("GITHUB_REPOSITORY") = THROWN
       THEN /\ sent' = Sent("none", "none", "threw")
            /\ uploads' = uploads
       ELSE /\ \E reply \in Replies : sent' = AfterRequest(reply)
            /\ uploads' = uploads + 1
    /\ UNCHANGED <<statusReport, startedAt, cacheVars, envVars, pc, argVars,
                   resolverVars, locatorVars, calls, result, normalizerVars,
                   pipelineVars, dependencyVars>>

\* The union of two environments, the second taking precedence.
Merge(f, g) ==
    [k \in DOMAIN f \cup DOMAIN g |-> IF k \in DOMAIN g THEN g[k] ELSE f[k]]

\* The variable unset, and the variable set to each of the values.
Settings(name, values) ==
    {[k \in {} |-> ""]} \cup {[k \in {name} |-> v] : v \in values}

\* The variables that the runner sets for every job: a push by Dependabot
\* and a pull request on github.com, a push on an enterprise server.
Runners ==
    {[GITHUB_REPOSITORY |-> "o/r", GITHUB_EVENT_NAME |-> "push",
      GITHUB_ACTOR |-> "dependabot[bot]",
      GITHUB_SERVER_URL |-> "https://github.com"],
     [GITHUB_REPOSITORY |-> "o/r", GITHUB_EVENT_NAME |-> "pull_request",
      GITHUB_ACTOR |-> "dependabot[bot]",
      GITHUB_SERVER_URL |-> "https://github.com"],
     [GITHUB_REPOSITORY |-> "o/r", GITHUB_EVENT_NAME |-> "push",
      GITHUB_ACTOR |-> "octocat",
      GITHUB_SERVER_URL |-> "https://ghe.example.com"]}

\* The job status that an earlier step left, if any.
EarlierJobStatuses ==
    {JobStatus.SuccessStatus, JobStatus.FailureStatus, ""}

\* Values of the variable that says whether the init action has run.
InitHasRunValues == {"true", "TRUE", "foobar", ""}

JobEnvironments ==
    {Merge(Merge(Merge(r, a), b), c) :
        r \in Runners,
        a \in Settings(EnvVar.JOB_STATUS, EarlierJobStatuses),
        b \in Settings(EnvVar.INIT_ACTION_HAS_RUN, InitHasRunValues),
        c \in Settings(EnvVar.TEST_MODE, {"true", "false"})}

InitStatusReport ==
    /\ toolcacheVersions = {}
    /\ pinnedVersions = {}
    /\ codeQLActionRepository = CODEQL_DEFAULT_ACTION_REPOSITORY
    /\ platform = "linux"
    /\ apiUrl = GITHUB_DOTCOM_URL
    /\ variant = "DOTCOM"
    /\ NoCall
    /\ NoNormalizerCall
    /\ NoDownload
    /\ processEnv \in JobEnvironments
    /\ statusReport = NoReport
    /\ sent = NotSent
    /\ uploads = 0
    /\ startedAt = FirstStart
    /\ NoDependencyCaching

NextStatusReport ==
    \/ createStatusReportBase
    \/ sendStatusReport

SpecStatusReport == InitStatusReport /\ [][NextStatusReport]_vars

\* The status reports of a job over several actions. The job starts with
\* the start time of the workflow unset; it may run in test mode.
StartedAtEnvironments ==
    {Merge(r, c) :
        r \in {e \in Runners : e.GITHUB_ACTOR = "octocat"},
        c \in Settings(EnvVar.TEST_MODE, {"true"})}

InitStartedAt ==
    /\ toolcacheVersions = {}
    /\ pinnedVersions = {}
    /\ codeQLActionRepository = CODEQL_DEFAULT_ACTION_REPOSITORY
    /\ platform = "linux"
    /\ apiUrl = GITHUB_DOTCOM_URL
    /\ variant = "DOTCOM"
    /\ NoCall
    /\ NoNormalizerCall
    /\ NoDownload
    /\ processEnv \in StartedAtEnvironments
    /\ statusReport = NoReport
    /\ sent = NotSent
    /\ uploads = 0
    /\ startedAt = FirstStart
    /\ NoDependencyCaching

\* The next action of the job starts, a minute or more after the one before:
\* a new process, with the variables that the earlier ones exported.
runNextAction ==
    /\ startedAt < LastStart
    /\ \E later \in (startedAt + 1)..LastStart : startedAt' = later
    /\ statusReport' = NoReport
    /\ UNCHANGED <<processEnv, sent, uploads, cacheVars, envVars, pc, argVars,
                   resolverVars, locatorVars, calls, result, normalizerVars,
                   pipelineVars, dependencyVars>>

NextStartedAt ==
    \/ createStatusReportBase
    \/ sendStatusReport
    \/ runNextAction

SpecStartedAt == InitStartedAt /\ [][NextStartedAt]_vars

-----------------------------------------------------------------------------
(* downloadDependencyCaches: restoring the dependency caches of a job.     *)

\* The most languages in one call.
MaxLanguages == 3

CODEQL_DEPENDENCY_CACHE_PREFIX == "codeql-dependencies"
CODEQL_DEPENDENCY_CACHE_VERSION == 1

\* The default caching configurations per language: the directories to
\* cache and the patterns of the files whose hash makes the key.
CODEQL_DEFAULT_CACHE_CONFIG ==
    [java |-> [paths |-> <<"~/.m2/repository", "~/.gradle/caches">>,
               hash |-> <<"**/pom.xml", "**/*.gradle*",
                          "**/gradle-wrapper.properties",
                          "buildSrc/**/Versions.kt",
                          "buildSrc/**/Dependencies.kt",
                          "gradle/*.versions.toml",
                          "**/versions.properties">>],
     csharp |-> [paths |-> <<"~/.nuget/packages">>,
                 hash |-> <<"**/packages.lock.json">>],
     go |-> [paths |-> <<"~/go/pkg/mod">>,
             hash |-> <<"**/go.sum">>]]

\* The files a workspace may hold, and the pattern that each one matches
\* (README.md matches none).
WorkspaceFiles == {"pom.xml", "build.gradle", "go.sum", "README.md"}
GlobMatches ==
    {<<"**/pom.xml", "pom.xml">>, <<"**/*.gradle*", "build.gradle">>,
     <<"**/go.sum", "go.sum">>}

\* (await makeGlobber(patterns)).glob(): the files of the workspace that
\* match one of the patterns.
glob(patterns) ==
    {file \in workspaceFiles :
        \E i \in 1..Len(patterns) : <<patterns[i], file>> \in GlobMatches}

\* The digest of one file.
Digest ==
    [file \in WorkspaceFiles |->
        CASE file = "pom.xml" -> "5a"
          [] file = "build.gradle" -> "c3"
          [] file = "go.sum" -> "9f"
          [] OTHER -> "00"]

\* glob.hashFiles(patterns): the empty string when no file matches, else a
\* digest of the matching files.
hashFiles(patterns) ==
    LET matching == glob(patterns)
        Of(file) == IF file \in matching THEN Digest[file] ELSE ""
    IN  Of("pom.xml") \o Of("build.gradle") \o Of("go.sum")

\* The text of a small number in a template literal.
DecimalDigits == <<"0", "1", "2", "3", "4", "5", "6", "7", "8", "9">>
NumberToString(n) == DecimalDigits[n + 1]

\* cachePrefix(language): the prefix of the keys of the language's caches,
\* an error when RUNNER_OS is not set.
cachePrefix(language) ==
    LET runnerOs == getRequiredEnvParam("RUNNER_OS")
    IN  IF runnerOs = THROWN THEN THROWN
        ELSE CODEQL_DEPENDENCY_CACHE_PREFIX \o "-"
             \o NumberToString(CODEQL_DEPENDENCY_CACHE_VERSION) \o "-"
             \o runnerOs \o "-" \o language \o "-"

\* cacheKey(language, cacheConfig): the prefix followed by the hash of the
\* files that match the hash patterns.
cacheKey(language, cacheConfig) ==
    LET hash == hashFiles(cacheConfig.hash)
    IN  IF cachePrefix(language) = THROWN THEN THROWN
        ELSE cachePrefix(language) \o hash

\* What actionsCache.restoreCache answers: no cache, the cache of the
\* primary key, a cache found by the restore key, or an error.
RestoreOutcomes == {"miss", "exact", "partial", "throws"}
NoHit == "<undefined>"
OlderHash == "0e"
restoreCache(primaryKey, restoreKeys, outcome) ==
    CASE outcome = "miss" -> NoHit
      [] outcome = "exact" -> primaryKey
      [] outcome = "partial" -> restoreKeys[1] \o OlderHash
      [] OTHER -> THROWN

\* downloadDependencyCaches(languages, logger), its entry: the list of
\* restored caches is empty, the loop is before the first language.
downloadDependencyCaches ==
    /\ cachingStep = "idle"
    /\ restoredCaches' = <<>>
    /\ cursor' = 1
    /\ cachingStep' = "loop"
    /\ UNCHANGED <<languages, restoreCalls, workspaceFiles, statusVars,
                   cacheVars, envVars, pc, argVars, resolverVars,
                   locatorVars, calls, result, normalizerVars, pipelineVars>>

\* The loop goes on to the next language.
SkipLanguage ==
    /\ cursor' = cursor + 1
    /\ UNCHANGED <<restoredCaches, restoreCalls, cachingStep>>

\* The restore of a language with a hit also restoring the languages that
\* have no cache.
AfterRestore_always(language, cacheConfig, primaryKey, restoreKeys, hitKey) ==
    /\ restoreCalls' = Append(restoreCalls,
           [language |-> language, paths |-> cacheConfig.paths,
            primaryKey |-> primaryKey, restoreKeys |-> restoreKeys,
            hitKey |-> hitKey])
    /\ IF hitKey = THROWN
       THEN /\ cachingStep' = "thrown"
            /\ UNCHANGED <<restoredCaches, cursor>>
       ELSE /\ restoredCaches' = Append(restoredCaches, language)
            /\ cursor' = cursor + 1
            /\ UNCHANGED cachingStep

\* The end of one iteration: the call of restoreCache is made with the
\* given answer; an error ends the function, a hit adds the language to the
\* restored caches.
AfterRestore(language, cacheConfig, primaryKey, restoreKeys, hitKey) ==
    /\ restoreCalls' = Append(restoreCalls,
           [language |-> language, paths |-> cacheConfig.paths,
            primaryKey |-> primaryKey, restoreKeys |-> restoreKeys,
            hitKey |-> hitKey])
    /\ IF hitKey = THROWN
       THEN /\ cachingStep' = "thrown"
            /\ UNCHANGED <<restoredCaches, cursor>>
       ELSE /\ restoredCaches' =
                   IF hitKey # NoHit
                   THEN Append(restoredCaches, language) ELSE restoredCaches
            /\ cursor' = cursor + 1
            /\ UNCHANGED cachingStep

\* One iteration of the loop over the languages.
RestoreLanguage ==
    /\ cachingStep = "loop"
    /\ cursor <= Len(languages)
    /\ LET language == languages[cursor]
       IN  IF language \notin DOMAIN CODEQL_DEFAULT_CACHE_CONFIG
           THEN SkipLanguage
           ELSE LET cacheConfig == CODEQL_DEFAULT_CACHE_CONFIG[language]
                IN  IF glob(cacheConfig.hash) = {}
                    THEN SkipLanguage
                    ELSE IF cacheKey(language, cacheConfig) = THROWN
                    THEN /\ cachingStep' = "thrown"
                         /\ UNCHANGED <<restoredCaches, restoreCalls, cursor>>
                    ELSE LET primaryKey == cacheKey(language, cacheConfig)
                             restoreKeys == <<cachePrefix(language)>>
                         IN  \E outcome \in RestoreOutcomes :
                                 AfterRestore(language, cacheConfig,
                                     primaryKey, restoreKeys,
                                     restoreCache(primaryKey, restoreKeys,
                                                  outcome))
    /\ UNCHANGED <<languages, workspaceFiles, statusVars, cacheVars, envVars,
                   pc, argVars, resolverVars, locatorVars, calls, result,
                   normalizerVars, pipelineVars>>

\* The loop is over: the function returns the restored caches.
ReturnRestoredCaches ==
    /\ cachingStep = "loop"
    /\ cursor > Len(languages)
    /\ cachingStep' = "returned"
    /\ UNCHANGED <<languages, cursor, restoredCaches, restoreCalls,
                   workspaceFiles, statusVars, cacheVars, envVars, pc,
                   argVars, resolverVars, locatorVars, calls, result,
                   normalizerVars, pipelineVars>>

\* The languages of a call: two with a caching configuration, one without.
Languages == {"java", "go", "python"}
LanguageLists == UNION {[1..n -> Languages] : n \in 0..MaxLanguages}

\* The runner's variable RUNNER_OS: set on a runner, absent elsewhere.
RunnerOsEnvironments ==
    {[RUNNER_OS |-> "Linux"], [RUNNER_OS |-> "macOS"], [k \in {} |-> ""]}

\* A call of downloadDependencyCaches in some workspace, for some languages.
InitDependencyCaching ==
    /\ toolcacheVersions = {}
    /\ pinnedVersions = {}
    /\ codeQLActionRepository = CODEQL_DEFAULT_ACTION_REPOSITORY
    /\ platform = "linux"
    /\ apiUrl = GITHUB_DOTCOM_URL
    /\ variant = "DOTCOM"
    /\ NoCall
    /\ NoNormalizerCall
    /\ NoDownload
    /\ statusReport = NoReport
    /\ sent = NotSent
    /\ uploads = 0
    /\ startedAt = FirstStart
    /\ languages \in LanguageLists
    /\ workspaceFiles \in SUBSET WorkspaceFiles
    /\ processEnv \in RunnerOsEnvironments
    /\ cursor = 0
    /\ restoredCaches = <<>>
    /\ restoreCalls = <<>>
    /\ cachingStep = "idle"

NextDependencyCaching ==
    \/ downloadDependencyCaches
    \/ RestoreLanguage
    \/ ReturnRestoredCaches

SpecDependencyCaching ==
    InitDependencyCaching /\ [][NextDependencyCaching]_vars

-----------------------------------------------------------------------------
(* Properties of getCodeQLSource.                                          *)

\* The lookups and requests logged so far.
CallIndices == 1..Len(calls)

\* C1: for every tools input that is non-empty, is not exactly "latest" and
\* does not start with "http", getCodeQLSource returns the local source
\* {sourceType: local, codeqlTarPath: the input, toolsVersion: "local"},
\* whatever the cache, the variant and the default version, and it makes no
\* cache lookup and no API request.
C1_LocalOverride ==
    (/\ toolsInput \notin {Undefined, <<>>, <<"l","a","t","e","s","t">>}
     /\ ~(Len(toolsInput) >= 4
            /\ SubSeq(toolsInput, 1, 4) = <<"h","t","t","p">>))
    => /\ pc = "done"
       /\ result = [sourceType |-> "local",
                    codeqlTarPath |-> toolsInput,
                    toolsVersion |-> <<"l","o","c","a","l">>]
       /\ calls = <<>>

\* C1 happens: a local path is resolved on an enterprise host whose cache
\* holds the default version and a pinned entry.
C1_Witness ==
    /\ pc = "done"
    /\ toolsInput = IN_localPath
    /\ result.sourceType = "local"
    /\ defaultCliVersion.cliVersion = V_2_12_1
    /\ V_2_12_1 \in toolcacheVersions
    /\ pinnedVersions # {}
    /\ variant = "GHES"

\* C2: with the tools input "latest" the source is derived from the bundled
\* defaults alone: every cache lookup is for the bundled CLI version (or a
\* version `<bundled CLI version>-...`), every release request is for the
\* bundled tag, the pinned-version search is never made, and the result
\* carries the bundled CLI version, whatever the default version passed in,
\* the variant and the pinned entries.
C2_LatestUsesDefaults ==
    toolsInput = STR_latest =>
      /\ pc # "error"
      /\ \A i \in CallIndices :
           /\ calls[i].op # "findOverridingToolsInCache"
           /\ calls[i].op = "find" =>
                \/ calls[i].arg = defaults.cliVersion
                \/ StartsWith(calls[i].arg, defaults.cliVersion \o <<"-">>)
           /\ calls[i].op = "ghaeFind" => calls[i].arg = defaults.bundleVersion
           /\ calls[i].op = "getReleaseByTag" =>
                calls[i].arg[2] = defaults.bundleVersion
      /\ pc = "done" =>
           /\ result.sourceType \in {"toolcache", "download"}
           /\ result.toolsVersion = defaults.cliVersion
           /\ result.sourceType = "toolcache" =>
                \E v \in toolcacheVersions :
                    /\ \/ v = defaults.cliVersion
                       \/ StartsWith(v, defaults.cliVersion \o <<"-">>)
                    /\ result.codeqlFolder = TOOLCACHE_DIR \o v
           /\ result.sourceType = "download" =>
                /\ result.cliVersion = defaults.cliVersion
                /\ result.bundleVersion = <<"v">> \o defaults.cliVersion
                /\ \/ /\ calls # <<>>
                      /\ calls[Len(calls)].site = "locator"
                      /\ calls[Len(calls)].out \in {"asset", "url"}
                   \/ result.codeqlURL =
                        STR_https_github \o CODEQL_DEFAULT_ACTION_REPOSITORY
                          \o STR_releasesDownload \o defaults.bundleVersion
                          \o <<"/">> \o codeQLBundleName

\* C2 happens: "latest" ends in a download on an enterprise host whose
\* cache holds a pinned entry, with another default version passed in.
C2_Witness ==
    /\ pc = "done"
    /\ toolsInput = STR_latest
    /\ defaultCliVersion.cliVersion = V_2_12_1
    /\ variant = "GHES"
    /\ V_2_12_1 \in pinnedVersions
    /\ result.sourceType = "download"

\* The cached versions named `<requested CLI version>-...`
SuffixMatches ==
    {v \in toolcacheVersions :
        /\ Len(v) > Len(cliVersion)
        /\ SubSeq(v, 1, Len(cliVersion) + 1) = cliVersion \o <<"-">>}

\* A call has returned with a requested CLI version that has no cache entry
\* of its own.
ReturnedWithoutExactEntry ==
    /\ pc = "done"
    /\ Truthy(cliVersion)
    /\ cliVersion \notin toolcacheVersions

\* The result is the cache entry `v`, labelled `label`.
IsToolcacheResult(v, label) ==
    result = [sourceType |-> "toolcache",
              codeqlFolder |-> TOOLCACHE_DIR \o v,
              toolsVersion |-> label]

\* C3 as stated: without an exact cache entry for the requested CLI version
\* V, one cached `V-*` gives a toolcache result for that entry, and two or
\* more cached `V-*` always give a download result.
C3_AmbiguousAlwaysDownloads ==
    ReturnedWithoutExactEntry =>
      /\ Cardinality(SuffixMatches) = 1 =>
           \E v \in SuffixMatches : IsToolcacheResult(v, cliVersion)
      /\ Cardinality(SuffixMatches) >= 2 => result.sourceType = "download"

\* C3: without an exact cache entry for the requested CLI version V, one
\* cached `V-*` gives a toolcache result for that entry; with two or more
\* cached `V-*` the tag-suffixed step looks none of them up, and resolution
\* goes on: the result is the entry under the coerced key of the tag if
\* there is one, else the only pinned entry if the pinned search ran and
\* found exactly one, else download.
C3_AmbiguousIsNotResolvedBySuffix ==
    ReturnedWithoutExactEntry =>
      /\ Cardinality(SuffixMatches) = 1 =>
           \E v \in SuffixMatches : IsToolcacheResult(v, cliVersion)
      /\ Cardinality(SuffixMatches) >= 2 =>
           /\ \A i \in CallIndices :
                ~(calls[i].site = "suffix" /\ calls[i].op = "find")
           /\ \/ /\ calls[Len(calls)].site = "coerced"
                 /\ calls[Len(calls)].out # <<>>
                 /\ calls[Len(calls)].arg \in toolcacheVersions
                 /\ IsToolcacheResult(calls[Len(calls)].arg, cliVersion)
              \/ /\ calls[Len(calls)].op = "findOverridingToolsInCache"
                 /\ \E v \in pinnedVersions \ BROKEN_VERSIONS :
                      /\ pinnedVersions \ BROKEN_VERSIONS = {v}
                      /\ IsToolcacheResult(v, v)
              \/ /\ result.sourceType = "download"
                 /\ \A i \in CallIndices :
                      calls[i].site = "coerced" => calls[i].out = <<>>
                 /\ \A i \in CallIndices :
                      calls[i].op = "findOverridingToolsInCache" =>
                        Cardinality(pinnedVersions \ BROKEN_VERSIONS) # 1

\* C3 happens: two cached `V-*`, one of them the only pinned entry, and the
\* pinned search returns it.
C3_Witness ==
    /\ ReturnedWithoutExactEntry
    /\ Cardinality(SuffixMatches) = 2
    /\ \E v \in SuffixMatches : pinnedVersions = {v} /\ IsToolcacheResult(v, v)
    /\ \E i \in CallIndices : calls[i].op = "findAllVersions"

\* The place of a step in the order exact match, tag-suffixed match,
\* coerced-bundle match, pinned override, download.
StepRank(site) ==
    CASE site = "exact" -> 1
      [] site = "suffix" -> 2
      [] site = "coerced" -> 3
      [] site = "pinned" -> 4
      [] site = "locator" -> 5

\* The cache lookup logged at `i` found an entry.
IsHit(i) == calls[i].op = "find" /\ calls[i].out # <<>>

\* C4: the steps of getCodeQLSource run in the order exact match,
\* tag-suffixed match, coerced-bundle match, pinned override, download; no
\* step runs after a cache lookup has found an entry, and the entry found is
\* the one returned. When the cache holds the requested CLI version itself,
\* the only lookup made is the exact one and the result is that entry,
\* whatever other entries and pins the cache holds.
C4_StepsInOrderNoBacktracking ==
    /\ \A i \in CallIndices : \A j \in CallIndices :
         i < j => /\ StepRank(calls[i].site) <= StepRank(calls[j].site)
                  /\ ~IsHit(i)
    /\ \A i \in CallIndices :
         (pc = "done" /\ IsHit(i)) =>
            /\ result.sourceType = "toolcache"
            /\ result.codeqlFolder = calls[i].out
    /\ (Truthy(cliVersion) /\ cliVersion \in toolcacheVersions) =>
         /\ \A i \in CallIndices :
              calls[i] = [site |-> "exact", op |-> "find", arg |-> cliVersion,
                          out |-> TOOLCACHE_DIR \o cliVersion]
         /\ pc \in {"exact", "coerced", "cacheDone", "done"}
         /\ pc = "done" => IsToolcacheResult(cliVersion, cliVersion)

\* C4 happens: the requested CLI version is cached next to a `V-*` entry and
\* a pinned `0.0.0-*` entry on an enterprise host, and the exact entry is
\* returned.
C4_Witness ==
    /\ pc = "done"
    /\ toolsInput = Undefined
    /\ variant = "GHES"
    /\ cliVersion = V_2_12_1
    /\ toolcacheVersions =
         {V_2_12_1, V_2_12_1 \o <<"-">> \o BV_20230101,
          STR_zeroPrefix \o BV_20230101}
    /\ pinnedVersions = {STR_zeroPrefix \o BV_20230101}
    /\ IsToolcacheResult(V_2_12_1, V_2_12_1)
    /\ Len(calls) = 1

\* The coerced-bundle step is over without an earlier match, for a known tag.
CoercedStepReached ==
    /\ pc \in {"cacheDone", "download", "ghaeFind", "ghaeDownload", "loop",
               "located", "done"}
    /\ Truthy(tagName)
    /\ \A i \in CallIndices : calls[i].site \in {"exact", "suffix"} => ~IsHit(i)

\* The version label of a result for the requested version.
RequestedLabel ==
    IF cliVersion # Undefined THEN cliVersion ELSE humanReadableVersion

RequestedEntries ==
    {v \in toolcacheVersions :
        \/ v = cliVersion
        \/ cliVersion # Undefined /\ v \in SuffixMatches
        \/ /\ Truthy(tagName)
           /\ Truthy(tryGetBundleVersionFromTagName(tagName))
           /\ v = convertToSemVer(tryGetBundleVersionFromTagName(tagName))}

\* C6: the pinned-version search runs only on a variant other than DOTCOM,
\* without the tools input "latest", without any explicit tools input, and
\* after every earlier cache lookup missed; on DOTCOM, with "latest" or with
\* an explicit tools input a toolcache result is always an entry that stands
\* for the requested version, labelled with the requested version.
C6_PinnedOverrideOnlyWhenAllowed ==
    /\ \A i \in CallIndices :
         calls[i].op = "findOverridingToolsInCache" =>
           /\ variant # "DOTCOM"
           /\ toolsInput # STR_latest
           /\ toolsInput \in {Undefined, <<>>}
           /\ \A j \in CallIndices : j < i => ~IsHit(j)
    /\ (/\ pc = "done"
        /\ result.sourceType = "toolcache"
        /\ \/ variant = "DOTCOM"
           \/ toolsInput = STR_latest
           \/ toolsInput \notin {Undefined, <<>>}) =>
         \E v \in RequestedEntries : IsToolcacheResult(v, RequestedLabel)

\* C6 happens: on DOTCOM the default version is not cached, another version
\* is the only pinned entry, and the result is a download.
C6_Witness ==
    /\ pc = "done"
    /\ variant = "DOTCOM"
    /\ toolsInput = Undefined
    /\ cliVersion = V_2_12_1
    /\ toolcacheVersions = {V_2_13_0}
    /\ pinnedVersions = {V_2_13_0}
    /\ result.sourceType = "download"

\* The cached versions that pass the validity filter and carry a pin.
GoodPinned ==
    {v \in toolcacheVersions : isGoodVersion(v) /\ v \in pinnedVersions}

\* The pinned search was made by the call that has returned.
ReturnedAfterPinnedSearch ==
    /\ pc = "done"
    /\ \E i \in CallIndices : calls[i].op = "findOverridingToolsInCache"

\* C7: when the pinned search is made, it returns an entry only if exactly
\* one entry of the whole cache passes the validity filter and carries a
\* pin, and then it returns that entry; with none or several the result is
\* a download.
C7_PinnedEntryOnlyIfUnique ==
    ReturnedAfterPinnedSearch =>
      /\ Cardinality(GoodPinned) = 1 =>
           \E v \in GoodPinned : IsToolcacheResult(v, v)
      /\ Cardinality(GoodPinned) # 1 => result.sourceType = "download"

\* C7 happens: two valid pinned entries and the result is a download.
C7_Witness ==
    /\ ReturnedAfterPinnedSearch
    /\ Cardinality(GoodPinned) = 2
    /\ result.sourceType = "download"

-----------------------------------------------------------------------------
(* Properties of getCodeQLBundleDownloadURL.                               *)

\* The locator is running or has returned.
LocatorCalled == sources # <<>>

\* The public host with the canonical repository.
PublicCanonicalPair ==
    << <<"h","t","t","p","s",":","/","/","g","i","t","h","u","b",".","c","o","m">>,
       <<"g","i","t","h","u","b","/","c","o","d","e","q","l","-",
         "a","c","t","i","o","n">> >>

\* The candidates before duplicates are removed, in priority order.
PairsInPriorityOrder ==
    << <<apiUrl, codeQLActionRepository>>,
       <<apiUrl, PublicCanonicalPair[2]>>,
       PublicCanonicalPair >>

\* The first place of a pair in the priority order.
FirstPlace(pair) ==
    CHOOSE k \in 1..3 :
        /\ PairsInPriorityOrder[k] = pair
        /\ \A h \in 1..(k - 1) : PairsInPriorityOrder[h] # pair

\* C8: the candidate list of getCodeQLBundleDownloadURL holds no two equal
\* (endpoint, repository) pairs, holds every pair of the priority order at
\* the place of its first occurrence, and ends with the (public host,
\* canonical repository) pair, for every endpoint and action repository.
C8_SourcesUniqueCanonicalLast ==
    /\ pc \in {"ghaeFind", "ghaeDownload", "loop", "located"} => LocatorCalled
    /\ LocatorCalled =>
         /\ \A i \in 1..Len(sources) : \A j \in 1..Len(sources) :
              i # j => sources[i] # sources[j]
         /\ {sources[i] : i \in 1..Len(sources)}
              = {PairsInPriorityOrder[k] : k \in 1..3}
         /\ \A i \in 1..Len(sources) : \A j \in 1..Len(sources) :
              i < j => FirstPlace(sources[i]) < FirstPlace(sources[j])
         /\ sources[Len(sources)] = PublicCanonicalPair

\* C8 happens: a fork on the public host, where the second and third pairs
\* of the priority order are equal and two candidates remain.
C8_Witness ==
    /\ pc = "loop"
    /\ apiUrl = GITHUB_DOTCOM_URL
    /\ codeQLActionRepository = FORK_REPOSITORY
    /\ sources = << <<GITHUB_DOTCOM_URL, FORK_REPOSITORY>>, PublicCanonicalPair >>

\* A request of the locator.
IsLocatorCall(c) == c.site = "locator"
IsReleaseLookup(c) == c.op = "getReleaseByTag"

\* A request of the locator gave a URL.
SomeRequestGaveUrl ==
    \E i \in CallIndices :
        \/ IsReleaseLookup(calls[i]) /\ calls[i].out = "asset"
        \/ calls[i].op = "ghaeDownload" /\ calls[i].out = "url"

\* The public URL of the bundle in the canonical repository.
PublicUrlOfRequestedTag ==
    <<"h","t","t","p","s",":","/","/","g","i","t","h","u","b",".","c","o","m","/">>
      \o PublicCanonicalPair[2]
      \o <<"/","r","e","l","e","a","s","e","s","/","d","o","w","n","l","o","a","d","/">>
      \o (IF tagName = Undefined THEN STR_undefined ELSE tagName)
      \o <<"/">> \o getCodeQLBundleName(platform)

\* The locator has returned a URL and the call a download source with it.
ReturnedDownloadUrl ==
    /\ pc = "done"
    /\ result.sourceType = "download"
    /\ Truthy(result.codeqlURL)
    /\ result.codeqlURL = url

\* No request of the locator ends the call with an error, and the request
\* after a failed one is made for the next candidate.
ErrorsDoNotAbort ==
    /\ pc = "error" => \A i \in CallIndices : ~IsLocatorCall(calls[i])
    /\ LocatorCalled => result.sourceType \in {"none", "download"}
    /\ pc = "loop" =>
         /\ index = Len(SelectSeq(calls, IsReleaseLookup)) + 1
         /\ index <= Len(sources)
    /\ (LocatorCalled /\ pc \in {"located", "done"}) =>
         IF SomeRequestGaveUrl
         THEN /\ calls[Len(calls)].op \in {"getReleaseByTag", "ghaeDownload"}
              /\ calls[Len(calls)].out \in {"asset", "url"}
              /\ url \in {ASSET_URL \o sources[k][2] : k \in 1..Len(sources)}
                         \cup {GHAE_DOWNLOAD_URL}
         ELSE url = PublicUrlOfRequestedTag

\* C9: no error of a request of the locator ends the call: the next
\* candidate is tried, and when no request gives a URL the locator returns
\* the public URL built from the canonical repository, the requested tag and
\* the bundle name of the platform; once called, the locator always returns
\* a URL.
C9_ErrorsNeverAbortAlwaysAUrl ==
    /\ []ErrorsDoNotAbort
    /\ (pc \in {"ghaeFind", "ghaeDownload", "loop"}) ~> ReturnedDownloadUrl

\* C9 happens: on GitHub AE the bundle lookup and both release lookups fail
\* and the public URL is returned.
C9_Witness ==
    /\ ReturnedDownloadUrl
    /\ variant = "GHAE"
    /\ Len(calls) >= 3
    /\ \A i \in CallIndices : IsLocatorCall(calls[i]) => calls[i].out = "error"
    /\ Len(SelectSeq(calls, IsReleaseLookup)) = 2
    /\ result.codeqlURL = PublicUrlOfRequestedTag

\* The release lookups made so far.
ReleaseLookups == SelectSeq(calls, IsReleaseLookup)

\* The locator went through its candidates without finding the asset.
FellThrough ==
    /\ LocatorCalled
    /\ pc \in {"located", "done"}
    /\ ~SomeRequestGaveUrl

\* C10 as stated: the candidates are queried in priority order, and before
\* the locator falls through to the public URL every candidate of the list
\* has been queried exactly once.
C10_EveryCandidateQueriedOnce ==
    /\ \A k \in 1..Len(ReleaseLookups) :
         /\ k <= Len(sources)
         /\ ReleaseLookups[k].arg[1] = sources[k][2]
    /\ FellThrough => Len(ReleaseLookups) = Len(sources)

\* C10: the candidates are queried one at a time in priority order, each at
\* most once, and the search stops at the first one that lists the asset;
\* the last candidate, the (public host, canonical repository) pair, is
\* never queried: before the locator falls through to the public URL every
\* candidate but the last has been queried exactly once.
C10_EveryCandidateButLastQueriedOnce ==
    /\ \A k \in 1..Len(ReleaseLookups) :
         /\ k < Len(sources)
         /\ ReleaseLookups[k].arg[1] = sources[k][2]
         /\ sources[k][1] = apiUrl
         /\ sources[k] # PublicCanonicalPair
         /\ k < Len(ReleaseLookups) => ReleaseLookups[k].out # "asset"
         /\ ReleaseLookups[k].out = "asset" =>
              /\ pc \in {"located", "done"}
              /\ url = ASSET_URL \o sources[k][2]
    /\ FellThrough =>
         /\ Len(ReleaseLookups) = Len(sources) - 1
         /\ url = PublicUrlOfRequestedTag

\* C10 happens: a fork on an enterprise host, where the fork and the
\* canonical repository are each queried once without the asset, and the
\* locator falls through.
C10_Witness ==
    /\ FellThrough
    /\ Len(sources) = 3
    /\ Len(ReleaseLookups) = 2
    /\ ReleaseLookups[1].arg[1] = FORK_REPOSITORY
    /\ ReleaseLookups[2].arg[1] = CODEQL_DEFAULT_ACTION_REPOSITORY
    /\ url = PublicUrlOfRequestedTag

\* The requests made to the GitHub AE endpoint.
IsGhaeCall(c) == c.op \in {"ghaeFind", "ghaeDownload"}
IsGhaeFind(c) == c.op = "ghaeFind"
GhaeCalls == SelectSeq(calls, IsGhaeCall)

\* C11: on GHAE the bundle endpoint is asked once, before any candidate of
\* the list; when it names an asset and gives its download URL, that URL is
\* returned and no candidate is queried; when a request to it fails or no
\* asset matches, the call does not fail and the candidates are queried as
\* on the other variants. On the other variants the endpoint is never asked.
C11_GhaeEndpointOnceAndFirst ==
    /\ variant # "GHAE" => GhaeCalls = <<>>
    /\ (variant = "GHAE" /\ LocatorCalled /\ pc # "ghaeFind") =>
         /\ Len(SelectSeq(calls, IsGhaeFind)) = 1
         /\ Len(GhaeCalls) \in {1, 2}
         /\ GhaeCalls[1].op = "ghaeFind"
         /\ GhaeCalls[1].arg = (IF tagName = Undefined THEN STR_undefined
                                ELSE tagName)
         /\ Len(GhaeCalls) = 2 <=>
              (GhaeCalls[1].out = "asset" /\ pc # "ghaeDownload")
    /\ pc = "ghaeFind" => (variant = "GHAE" /\ GhaeCalls = <<>>)
    /\ \A i \in CallIndices : \A j \in CallIndices :
         (IsGhaeCall(calls[i]) /\ IsReleaseLookup(calls[j])) => i < j
    /\ \A i \in CallIndices :
         (calls[i].op = "ghaeDownload" /\ calls[i].out = "url") =>
            /\ ReleaseLookups = <<>>
            /\ pc \in {"located", "done"}
            /\ url = GHAE_DOWNLOAD_URL
            /\ pc = "done" => result.codeqlURL = GHAE_DOWNLOAD_URL
    /\ (GhaeCalls # <<>> /\ GhaeCalls[Len(GhaeCalls)].out \in {"error", "noAsset"}) =>
         /\ pc \in {"loop", "located", "done"}
         /\ result.sourceType \in {"none", "download"}
         /\ pc = "loop" => index = Len(ReleaseLookups) + 1
         /\ FellThrough => Len(ReleaseLookups) = Len(sources) - 1

\* C11 happens: on GHAE the endpoint fails and a candidate of the list
\* gives the URL.
C11_Witness ==
    /\ pc = "done"
    /\ variant = "GHAE"
    /\ Len(GhaeCalls) = 1
    /\ GhaeCalls[1].out = "error"
    /\ Len(ReleaseLookups) = 2
    /\ ReleaseLookups[2].out = "asset"
    /\ result.codeqlURL = ASSET_URL \o CODEQL_DEFAULT_ACTION_REPOSITORY

-----------------------------------------------------------------------------
(* Properties of getCodeQLSource with a URL as tools input.                *)

\* The tools input is a URL.
IsUrlInput ==
    /\ toolsInput # Undefined
    /\ Len(toolsInput) >= 4
    /\ SubSeq(toolsInput, 1, 4) = <<"h","t","t","p">>

\* Some cache lookup found an entry.
SomeHit == \E i \in CallIndices : IsHit(i)

\* A request of the release asset locator was made.
SomeLocatorRequest == \E i \in CallIndices : calls[i].site = "locator"

\* C26: with a URL as tools input the locator is never called and no
\* release API request is made; once the call has returned without a cache
\* hit, its result is a download source with the given URL unchanged.  The
\* locator is called only when no URL was given.
C26_GivenUrlIsUsedUnchanged ==
    /\ IsUrlInput =>
        /\ ~LocatorCalled
        /\ ~SomeLocatorRequest
        /\ pc \notin {"ghaeFind", "ghaeDownload", "loop", "located"}
        /\ (pc = "done" /\ ~SomeHit) =>
                /\ result.sourceType = "download"
                /\ result.codeqlURL = toolsInput
        /\ (pc = "done" /\ SomeHit) => result.sourceType = "toolcache"
    /\ (LocatorCalled \/ SomeLocatorRequest) =>
            toolsInput \in {Undefined, <<>>, <<"l","a","t","e","s","t">>}

\* A URL was given, the cache lookup missed and the URL is returned.
C26_Witness ==
    /\ pc = "done"
    /\ toolsInput = IN_urlTag
    /\ Len(calls) = 1
    /\ ~SomeHit
    /\ result.sourceType = "download"
    /\ result.codeqlURL = IN_urlTag

\* The bundle version of the tag of the URL given: what follows
\* `codeql-bundle-` in the path segment that starts with it.
UrlBundleVersion ==
    IF tryGetTagNameFromUrl(toolsInput) = Undefined THEN Undefined
    ELSE From(tryGetTagNameFromUrl(toolsInput), Len(STR_tagPrefix) + 1)

\* The bundle version of the URL is a semantic version.
UrlHasSemVer ==
    /\ UrlBundleVersion # Undefined
    /\ UrlBundleVersion # <<>>
    /\ SemVerParse(UrlBundleVersion) # Null

\* C27: with a URL as tools input the resolver has a CLI version exactly
\* when the bundle version of the URL's tag is a semantic version, and then
\* it is that version; otherwise (no tag, or a bundle version that is not a
\* semantic version) no exact and no tag-suffixed lookup is made, and a
\* toolcache result comes from the coerced-bundle lookup of a known tag.
C27_CliVersionOnlyFromSemVerTag ==
    (IsUrlInput /\ pc # "idle") =>
        /\ UrlHasSemVer =>
                cliVersion = SemVerClean(UrlBundleVersion)
        /\ ~UrlHasSemVer =>
                /\ cliVersion = Undefined
                /\ \A i \in CallIndices :
                        calls[i].site \notin {"exact", "suffix", "pinned"}
                /\ (pc = "done" /\ result.sourceType = "toolcache") =>
                        /\ Truthy(tagName)
                        /\ \E i \in CallIndices :
                                calls[i].site = "coerced" /\ IsHit(i)
                /\ (pc = "done" /\ tagName = Undefined) =>
                        calls = <<>> /\ result.sourceType = "download"

\* A URL whose tag has a timestamp as bundle version: no CLI version, one
\* coerced-bundle lookup, a toolcache result.
C27_Witness ==
    /\ pc = "done"
    /\ toolsInput = IN_urlTag
    /\ cliVersion = Undefined
    /\ Len(calls) = 1
    /\ calls[1].site = "coerced"
    /\ result.sourceType = "toolcache"


-----------------------------------------------------------------------------
(* Properties of a second call of getCodeQLSource.                         *)

\* The second call, with the URL whose bundle was downloaded and cached,
\* has returned or thrown.
SecondCallOver ==
    /\ step = "again"
    /\ pc \in {"done", "error"}
    /\ tryGetTagNameFromUrl(toolsInput) # Undefined

\* C29 as stated: after the bundle of a URL with a tag name was downloaded
\* and cached, getCodeQLSource with the same URL gives a toolcache result
\* for that entry, with no download and no release API request.
C29_SameUrlResolvesToCachedEntry ==
    SecondCallOver =>
        /\ pc = "done"
        /\ result.sourceType = "toolcache"
        /\ result.codeqlFolder = download.codeqlFolder
        /\ \A i \in CallIndices : calls[i].site # "locator"


-----------------------------------------------------------------------------
(* Properties of getCodeQLSource with a malformed bundle version.          *)

\* The bundle version of the requested tag: what follows `codeql-bundle-`.
RequestedBundleVersion ==
    IF Truthy(tagName) /\ Len(tagName) >= Len(STR_tagPrefix)
        /\ SubSeq(tagName, 1, Len(STR_tagPrefix)) = STR_tagPrefix
    THEN From(tagName, Len(STR_tagPrefix) + 1)
    ELSE Undefined

\* The bundle version is no semantic version and `0.0.0-<bundleVersion>` is
\* none either.
WrappedFormFails ==
    /\ Truthy(RequestedBundleVersion)
    /\ SemVerParse(RequestedBundleVersion) = Null
    /\ SemVerParse(StripEqV(Trim(STR_zeroPrefix \o RequestedBundleVersion)))
            = Null

\* C30: getCodeQLSource throws exactly when it converts a bundle version
\* whose wrapped form `0.0.0-<bundleVersion>` fails to parse: in the label
\* computation when no CLI version is known, in the coerced-bundle lookup
\* when the earlier lookups missed.  A call that threw returns no source, and
\* no source is ever returned past such a conversion; a conversion that does
\* not throw yields a semantic version.
C30_MalformedVersionIsHardError ==
    /\ pc = "error" =>
            /\ result = Thrown
            /\ WrappedFormFails
    /\ (pc # "idle" /\ cliVersion = Undefined /\ WrappedFormFails) =>
            pc = "error" /\ calls = <<>>
    /\ (CoercedStepReached /\ WrappedFormFails) => FALSE
    /\ (pc = "done" /\ WrappedFormFails) =>
            /\ result.sourceType = "toolcache"
            /\ \A i \in CallIndices : calls[i].site \in {"exact", "suffix"}
    /\ \A i \in CallIndices :
            calls[i].site = "coerced" => SemVerParse(calls[i].arg) # Null

\* A known CLI version with a malformed tag: the exact and tag-suffixed
\* lookups missed and the coerced-bundle lookup threw.
C30_Witness ==
    /\ pc = "error"
    /\ cliVersion = V_2_12_1
    /\ tagName = MalformedDefault.tagName
    /\ Len(calls) = 2
    /\ result = Thrown


-----------------------------------------------------------------------------
(* Properties of getCodeQLSource: the tag of a located bundle.             *)

\* The call returned a download source for a URL that the locator gave.
ReturnedLocatedDownload ==
    /\ pc = "done"
    /\ result.sourceType = "download"
    /\ ~IsUrlInput

\* The tag is known unless the tools input is the empty string.
TagKnownUnlessInputEmpty ==
    (LocatorCalled \/ ReturnedLocatedDownload) /\ toolsInput # <<>>
        => tagName # Undefined

\* C35: whenever getCodeQLSource calls the release asset locator or returns
\* a download source without a caller-given URL, a tag name is defined: for
\* every tools input (unset, "latest", a URL, the empty string) the
\* synthesized download URL is built from a known tag, never from an
\* undefined one.
C35_LocatedBundleHasKnownTag ==
    LocatorCalled \/ ReturnedLocatedDownload => tagName # Undefined

-----------------------------------------------------------------------------
(* Properties of getCodeQLSource: the cache entry of a toolcache source.   *)

\* The call returned a toolcache source.
ReturnedToolcache == pc = "done" /\ result.sourceType = "toolcache"

\* The entry is one that the request designates: the requested CLI version,
\* the only entry `<cliVersion>-*`, the key `0.0.0-<bundleVersion>` of the
\* requested tag, or the only pinned entry that passes the validity filter.
IsDesignatedEntry(v) ==
    \/ Truthy(cliVersion) /\ v = cliVersion
    \/ Truthy(cliVersion) /\ SuffixMatches = {v}
    \/ Truthy(RequestedBundleVersion)
           /\ v = STR_zeroPrefix \o RequestedBundleVersion
    \/ GoodPinned = {v}

\* C34: whenever getCodeQLSource returns sourceType toolcache, codeqlFolder
\* is the non-empty folder of an entry present in the cache at that moment,
\* and that entry's version is either the requested CLI version, the unique
\* `<cliVersion>-*` entry, the coerced `0.0.0-<bundleVersion>` key, or the
\* unique pinned entry; no other cache entry is ever returned.
C34_ToolcacheSourceIsDesignatedEntry ==
    ReturnedToolcache =>
        /\ result.codeqlFolder # <<>>
        /\ \E v \in toolcacheVersions :
              /\ result.codeqlFolder = TOOLCACHE_DIR \o v
              /\ IsDesignatedEntry(v)

\* The coerced key was returned from a cache that holds other entries, one
\* of them pinned.
C34_Witness ==
    /\ ReturnedToolcache
    /\ Truthy(RequestedBundleVersion)
    /\ result.codeqlFolder
           = TOOLCACHE_DIR \o STR_zeroPrefix \o RequestedBundleVersion
    /\ Cardinality(toolcacheVersions) = MaxCacheEntries
    /\ pinnedVersions # {}

-----------------------------------------------------------------------------
(* Properties of status reports.                                           *)

\* The values of the variable of the environment, none when it is unset.
ValuesIn(environment, name) ==
    IF name \in DOMAIN environment THEN {environment[name]} ELSE {}

\* C22: isFirstPartyAnalysis returns false only for the upload-sarif action,
\* and for upload-sarif it returns true if and only if the variable that says
\* that the init action has run is exactly "true" (any other value, or the
\* variable being unset, gives false); for every other action name it
\* returns true whatever the environment.
C22_FirstPartyUnlessUploadWithoutInit ==
    statusReport.status \in ActionStatus =>
        IF statusReport.action_name = "upload-sarif"
        THEN statusReport.first_party_analysis
             <=> ValuesIn(processEnv, "CODEQL_ACTION_INIT_HAS_RUN") = {"true"}
        ELSE statusReport.first_party_analysis

C22_Witness ==
    /\ statusReport.status \in ActionStatus
    /\ statusReport.action_name = "upload-sarif"
    /\ statusReport.first_party_analysis
    /\ sent.n > 0

\* A step of sendStatusReport.
ReportIsSent == sent'.n = sent.n + 1

JobStatusBefore == ValuesIn(processEnv, "CODEQL_ACTION_JOB_STATUS")

JobStatusAfter == ValuesIn(processEnv', "CODEQL_ACTION_JOB_STATUS")

\* A job status that is set stays as it is.
JobStatusIsKept == JobStatusBefore # {} => JobStatusAfter = JobStatusBefore

\* An unset job status is set by a report of an unsuccessful status, and by
\* nothing else.
JobStatusIsSetByUnsuccessfulReport ==
    JobStatusBefore = {} =>
        IF ~ReportIsSent
        THEN JobStatusAfter = {}
        ELSE IF statusReport.status = "user-error"
        THEN JobStatusAfter = {"JOB_STATUS_CONFIGURATION_ERROR"}
        ELSE IF statusReport.status \in {"failure", "aborted"}
        THEN JobStatusAfter = {"JOB_STATUS_FAILURE"}
        ELSE JobStatusAfter = {}

ReportsAreBestEffort ==
    /\ sent.value \in {"none", "returned"}
    /\ sent.reply \notin {"none", "200"} => sent.logged # "none"
    /\ ValuesIn(processEnv, "CODEQL_ACTION_TEST_MODE") = {"true"} =>
           uploads = 0 /\ sent.reply = "none"
    /\ ValuesIn(processEnv, "CODEQL_ACTION_TEST_MODE") # {"true"} =>
           uploads = sent.n

\* The report of an unsuccessful status leaves the job status set, in test
\* mode as otherwise.
UnsuccessfulReportSetsJobStatus ==
    ReportIsSent /\ statusReport.status \in {"user-error", "failure", "aborted"}
        => JobStatusAfter # {}

\* C24: sendStatusReport is best-effort: a failure of the status upload
\* request (HTTP 403, 404, 422 or any other error) is logged and never
\* propagates to the caller, and in test mode no upload request is sent at
\* all while the job status variable is still updated.
C24_SendStatusReportIsBestEffort ==
    []ReportsAreBestEffort /\ [][UnsuccessfulReportSetsJobStatus]_vars

\* A request that failed with an error that is not an HTTP error: the call
\* returned after a warning.
C24_Witness ==
    /\ sent.reply = "error"
    /\ sent.value = "returned"
    /\ sent.logged = "warning: unexpected error"
    /\ uploads = sent.n

-----------------------------------------------------------------------------
(* Properties of createStatusReportBase.                                   *)

\* createStatusReportBase returned a report.
ReportReturned == statusReport.status \in ActionStatus

\* The start time of the workflow in the environment, none when unset.
WorkflowStartedAt == ValuesIn(processEnv, "CODEQL_WORKFLOW_STARTED_AT")

\* The start times that actions of the job have had so far.
StartsSoFar == {toISOString(d) : d \in FirstStart..startedAt}

\* A returned report has the start time of the workflow, and its time of
\* completion is set exactly when its status is not "starting".
ReportHasWorkflowStart ==
    ReportReturned =>
        /\ WorkflowStartedAt = {statusReport.started_at}
        /\ statusReport.completed_at # Absent
               <=> statusReport.status # "starting"

\* The start time of the workflow, once set, is the start time of an action
\* that has run.
WorkflowStartIsOfSomeAction == WorkflowStartedAt \subseteq StartsSoFar

\* A step leaves a start time of the workflow that is set as it is, and sets
\* one that is unset to the start time of the action that is running.
WorkflowStartIsSetOnce ==
    /\ WorkflowStartedAt # {} =>
           ValuesIn(processEnv', "CODEQL_WORKFLOW_STARTED_AT") = WorkflowStartedAt
    /\ WorkflowStartedAt = {} =>
           ValuesIn(processEnv', "CODEQL_WORKFLOW_STARTED_AT")
               \subseteq {toISOString(startedAt)}
    /\ (WorkflowStartedAt = {} /\ statusReport'.status \in ActionStatus) =>
           ValuesIn(processEnv', "CODEQL_WORKFLOW_STARTED_AT")
               = {toISOString(startedAt)}

-----------------------------------------------------------------------------
(* Properties of the version normalizer.                                   *)

\* C17: convertToSemVer is idempotent: applied to a version it returned, it
\* returns that version again.
C17_ConvertToSemVerIdempotent ==
    (returned.fn = "convertToSemVer" /\ returned.of # given) =>
        returned.value = returned.of

\* C17 happens: a version with a `v` prefix and build metadata is converted
\* to a plain pre-release version, and that version is converted again.
C17_Witness ==
    /\ given = <<"v","1",".","2",".","3","-","a","+","b">>
    /\ returned = [fn |-> "convertToSemVer",
                   of |-> <<"1",".","2",".","3","-","a">>,
                   value |-> <<"1",".","2",".","3","-","a">>]

\* C18: tryGetBundleVersionFromTagName returns X for every tag name
\* `codeql-bundle-X` (a name without line terminators) and none for every
\* string that does not start with `codeql-bundle-`, and for a string with
\* a line terminator.
C18_BundleVersionOfTagName ==
    returned.fn = "tryGetBundleVersionFromTagName" =>
        IF /\ Len(given) >= 14
           /\ SubSeq(given, 1, 14) =
                <<"c","o","d","e","q","l","-","b","u","n","d","l","e","-">>
           /\ \A i \in 1..Len(given) : given[i] \notin {"\n", "\r"}
        THEN returned.value = SubSeq(given, 15, Len(given))
        ELSE returned.value = Undefined

\* C18 happens: the bundle version of a tag name is returned, blank and
\* build metadata included.
C18_Witness ==
    /\ returned.fn = "tryGetBundleVersionFromTagName"
    /\ given = STR_tagPrefix \o <<"v","1",".","2",".","3","+","b"," ">>
    /\ returned.value = <<"v","1",".","2",".","3","+","b"," ">>

-----------------------------------------------------------------------------
(* Properties of downloadCodeQL.                                           *)

\* The events of the pipeline with the given operation.
PipelineEvents(op) ==
    SelectSeq(calls, LAMBDA c : c.site = "pipeline" /\ c.op = op)

\* The download request has been made.
DownloadRequested == PipelineEvents("downloadTool") # <<>>

\* Scheme and authority of a URL: what precedes the first "/", "?" or "#"
\* after the "://".
AuthorityEnd(rest) ==
    Least({i \in 1..(Len(rest) + 1) :
              i = Len(rest) + 1 \/ rest[i] \in {"/", "?", "#"}})
OriginOf(u) ==
    SubSeq(u, 1, IndexOf(u, <<":","/","/">>) + 2
                    + AuthorityEnd(From(u, IndexOf(u, <<":","/","/">>) + 3))
                    - 1)

\* The query of the URL has a parameter named token.
EmbedsToken(u) ==
    \E i \in 1..Len(u) :
        /\ u[i] \in {"?", "&"}
        /\ \A j \in 1..(i - 1) : u[j] # "#"
        /\ \E j \in 1..i : u[j] = "?"
        /\ StartsWith(From(u, i + 1), <<"t","o","k","e","n">>)
        /\ (i + 5 = Len(u) \/ u[i + 6] \in {"=", "&", "#"})

\* C12: the download carries the job's token only if the URL's host is the
\* job's own host and its query has no token parameter; a URL on any other
\* host, and a URL with a token parameter, is requested without a header.
C12_TokenOnlyForOwnHost ==
    step # "none" =>
        /\ download.authorization \in
                {Undefined, <<"t","o","k","e","n"," ">> \o AUTH}
        /\ download.authorization # Undefined =>
                /\ OriginOf(download.codeqlURL) = apiUrl
                /\ ~EmbedsToken(download.codeqlURL)
        /\ OriginOf(download.codeqlURL) # apiUrl =>
                download.authorization = Undefined
        /\ EmbedsToken(download.codeqlURL) =>
                download.authorization = Undefined

\* A URL on the job's own host, without a token, was requested with the
\* job's token.
C12_Witness ==
    /\ DownloadRequested
    /\ OriginOf(download.codeqlURL) = apiUrl
    /\ download.authorization = <<"t","o","k","e","n"," ">> \o AUTH


\* No bundle version was passed in and the URL has none.
NoBundleVersion ==
    /\ download.maybeBundleVersion = Undefined
    /\ tryGetBundleVersionFromUrl(download.codeqlURL) = Undefined

\* downloadCodeQL returned the extracted directory and cached nothing.
ReturnedUncached ==
    /\ downloaded.codeqlFolder = CODEQL_EXTRACTED
    /\ CODEQL_EXTRACTED \in files
    /\ PipelineEvents("cacheDir") = <<>>
    /\ PipelineEvents("getReleaseByTag") = <<>>

\* C13 as stated: without a bundle version the label is always "unknown".
C13_NoBundleVersionIsUnknown ==
    (step = "returned" /\ NoBundleVersion) =>
        ReturnedUncached /\ downloaded.toolsVersion = STR_unknown

\* C13: when no bundle version was passed in and the URL has none,
\* downloadCodeQL returns the extracted directory, caches nothing, and labels
\* the result with the CLI version passed in, or "unknown" if none was.
C13_NoBundleVersionIsUncached ==
    (step = "returned" /\ NoBundleVersion) =>
        /\ ReturnedUncached
        /\ downloaded.toolsVersion =
                (IF download.maybeCliVersion = Undefined
                 THEN STR_unknown ELSE download.maybeCliVersion)
        /\ downloaded.toolsDownloadDurationMs \in Durations

\* A download without a bundle version but with a CLI version returned.
C13_Witness ==
    /\ step = "returned"
    /\ NoBundleVersion
    /\ download.maybeCliVersion = V_2_12_1
    /\ downloaded.toolsVersion = V_2_12_1


\* The bundle has been placed in the cache.
Cached == PipelineEvents("cacheDir") # <<>> /\ step # "failed"

\* The key the bundle was cached under.
CachedKey == PipelineEvents("cacheDir")[1].arg

\* x.y.z of decimal numbers.
IsStableRelease(v) ==
    /\ v # Undefined
    /\ \A i \in 1..Len(v) : v[i] \in Digits \cup {"."}
    /\ Len(Split(v, ".")) = 3
    /\ \A i \in 1..3 : Split(v, ".")[i] # <<>>

\* The key reads as the composite of a stable release and a bundle version:
\* the entries a search for the stable release x.y.z takes as its own.
IsStableComposite(key) ==
    Includes(key, <<"-">>) /\ IsStableRelease(BeforeFirst(key, "-"))

\* C14 as stated: the key is `<cliVersion>-<bundleVersion>` exactly when the
\* CLI version is a stable x.y.z and `0.0.0-<bundleVersion>` in every other
\* case, so that a download whose CLI version is unknown, a pre-release or a
\* nightly never writes an entry that reads as the composite of a stable
\* release other than 0.0.0.
C14_StableCompositeOnlyForStableCli ==
    Cached =>
        IF IsStableRelease(download.maybeCliVersion)
        THEN CachedKey =
                download.maybeCliVersion \o <<"-">> \o download.bundleVersion
        ELSE /\ CachedKey = STR_zeroPrefix \o download.bundleVersion
             /\ IsStableComposite(CachedKey) =>
                    StartsWith(CachedKey, STR_zeroPrefix)


\* The positions in the log of the failed deletions of the given path.
FailedDeletions(path) ==
    {i \in 1..Len(calls) :
        /\ calls[i].site = "pipeline" /\ calls[i].op = "del"
        /\ calls[i].arg = path /\ calls[i].out = "error"}

\* The last step of the pipeline so far.
LastEvent == calls[Len(calls)]

\* What downloadCodeQL returns when every deletion succeeds: the cache
\* entry and its version if the bundle was cached, the extracted directory
\* otherwise.
ReturnedAsWithoutFailure ==
    /\ downloaded.toolsDownloadDurationMs = download.toolsDownloadDurationMs
    /\ IF Cached
       THEN /\ downloaded.codeqlFolder = TOOLCACHE_DIR \o CachedKey
            /\ CachedKey \in toolcacheVersions
            /\ downloaded.toolsVersion =
                    Nullish(download.maybeCliVersion, CachedKey)
       ELSE /\ downloaded.codeqlFolder = CODEQL_EXTRACTED
            /\ downloaded.toolsVersion =
                    Nullish(download.maybeCliVersion, STR_unknown)

\* C19: when the deletion of the downloaded archive fails, a warning is
\* logged and the pipeline goes on: it does not fail at that step, and what
\* it caches and returns is what it caches and returns when the deletion
\* succeeds.
C19_ArchiveDeletionFailureIsWarning ==
    FailedDeletions(CODEQL_PATH) # {} =>
        /\ \A i \in FailedDeletions(CODEQL_PATH) :
                /\ i < Len(calls)
                /\ calls[i + 1].op = "warning"
                /\ i + 1 < Len(calls) \/ step = "bundleVersion"
        /\ step = "returned" => ReturnedAsWithoutFailure

\* The archive could not be deleted and the bundle was cached and returned.
C19_Witness ==
    /\ FailedDeletions(CODEQL_PATH) # {}
    /\ CODEQL_PATH \in files
    /\ Cached
    /\ step = "returned"
    /\ downloaded.codeqlFolder = TOOLCACHE_DIR \o CachedKey

\* C20 as stated: a failure to delete the extracted copy after the tree
\* was cached does not abort the pipeline, which still returns the cached
\* folder and version.
C20_ExtractedDeletionIsBestEffort ==
    FailedDeletions(CODEQL_EXTRACTED) # {} =>
        /\ step # "failed"
        /\ step = "returned" =>
                /\ downloaded.codeqlFolder = TOOLCACHE_DIR \o CachedKey
                /\ downloaded.toolsVersion =
                        Nullish(download.maybeCliVersion, CachedKey)


\* The positions in the log of the disk-space probes that failed.
FailedProbes ==
    {i \in 1..Len(calls) :
        /\ calls[i].site = "pipeline"
        /\ calls[i].op = "checkDiskSpace"
        /\ calls[i].out = "error"}

\* C21 as stated: a failing disk-space probe never aborts downloadCodeQL:
\* the pipeline goes on after it, and what it returns and caches is what it
\* returns and caches without the failure.
C21_ProbesAreAdvisory ==
    FailedProbes # {} =>
        /\ step # "failed"
        /\ step = "returned" => ReturnedAsWithoutFailure


\* The positions in the log of the steps with the given operation on the
\* given argument and with the given outcome.
Steps(op, a, out) ==
    {i \in 1..Len(calls) :
        /\ calls[i].site = "pipeline" /\ calls[i].op = op
        /\ calls[i].arg = a /\ calls[i].out = out}

\* The stages of the pipeline: the download, the extraction, the deletion
\* of the archive (with either outcome), the cache write and the deletion
\* of the extracted copy.
Downloads(out) == Steps("downloadTool", download.codeqlURL, out)
Extractions(out) == Steps("extractTar", CODEQL_PATH, out)
ArchiveDeletions ==
    Steps("del", CODEQL_PATH, "ok") \cup Steps("del", CODEQL_PATH, "error")
CacheWrites(out) ==
    {i \in 1..Len(calls) :
        /\ calls[i].site = "pipeline" /\ calls[i].op = "cacheDir"
        /\ calls[i].out = out}
ExtractedDeletions ==
    Steps("del", CODEQL_EXTRACTED, "ok")
        \cup Steps("del", CODEQL_EXTRACTED, "error")

\* Every step of `later` comes after some step of `earlier`.
Precede(earlier, later) == \A j \in later : \E i \in earlier : i < j

\* The stages so far are in the fixed order, each made at most once.
StagesInOrder ==
    /\ Precede(Downloads("ok"), Extractions("ok") \cup Extractions("error"))
    /\ Precede(Extractions("ok"), ArchiveDeletions)
    /\ Precede(ArchiveDeletions, CacheWrites("ok") \cup CacheWrites("error"))
    /\ Precede(CacheWrites("ok"), ExtractedDeletions)
    /\ Cardinality(Downloads("ok") \cup Downloads("error")) <= 1
    /\ Cardinality(Extractions("ok") \cup Extractions("error")) <= 1
    /\ Cardinality(ArchiveDeletions) <= 1
    /\ Cardinality(CacheWrites("ok") \cup CacheWrites("error")) <= 1
    /\ Cardinality(ExtractedDeletions) <= 1
    /\ Extractions("ok") # {} =>
            CODEQL_EXTRACTED \in files \/ CacheWrites("ok") # {}
    /\ (Downloads("error") # {} \/ Extractions("error") # {}) =>
            /\ step = "failed"
            /\ CacheWrites("ok") \cup CacheWrites("error") = {}

\* Only the cache write changes the cache.
CacheChangesOnlyAtCacheWrite ==
    step # "cacheDir" =>
        /\ toolcacheVersions' = toolcacheVersions
        /\ pinnedVersions' = pinnedVersions

\* C25: downloadCodeQL makes its stages in the order download, extract,
\* delete archive, place in cache, delete extracted copy: no extraction
\* before a completed download, no cache write before a successful
\* extraction, no deletion of the extracted copy before the cache entry
\* exists; the cache changes at the cache write only, so a failed download
\* or extraction leaves it as it was.
C25_StagesInFixedOrder ==
    []StagesInOrder /\ [][CacheChangesOnlyAtCacheWrite]_vars

\* A run that made all five stages and returned.
C25_Witness ==
    /\ step = "returned"
    /\ Downloads("ok") # {}
    /\ Extractions("ok") # {}
    /\ ArchiveDeletions # {}
    /\ CacheWrites("ok") # {}
    /\ ExtractedDeletions # {}
    /\ CachedKey \in toolcacheVersions


\* The release lookups downloadCodeQL made for the CLI version.
MarkerLookups == PipelineEvents("getReleaseByTag")

\* The lookup is made at most once, on the public host only, for the tag of
\* the bundle version; when it gives no version the key is the coerced one,
\* and without a lookup the CLI version is the one passed in.
LookupIsGuarded ==
    /\ Len(MarkerLookups) <= 1
    /\ MarkerLookups # <<>> =>
            /\ variant = "DOTCOM"
            /\ download.bundleVersion # Undefined
            /\ MarkerLookups[1].out # "oneMarker" =>
                    /\ download.maybeCliVersion = Undefined
                    /\ Cached =>
                            CachedKey = convertToSemVer(download.bundleVersion)
            /\ MarkerLookups[1].out = "oneMarker" =>
                    download.maybeCliVersion \in MarkerVersions
    /\ variant # "DOTCOM" => MarkerLookups = <<>>
    /\ (step = "cacheDir" /\ download.maybeCliVersion # Undefined
            /\ download.maybeCliVersion \notin MarkerVersions) =>
                MarkerLookups = <<>>

\* The release asked for is the one of the canonical repository.
LookupIsOfCanonicalRepository ==
    \A i \in 1..Len(MarkerLookups) :
        MarkerLookups[i].arg =
            <<"g","i","t","h","u","b","/","c","o","d","e","q","l","-",
              "a","c","t","i","o","n">>
                \o <<"@">> \o STR_tagPrefix \o download.bundleVersion

\* C28 as stated: the release marker of the canonical repository is looked
\* up only on the public host and only without a CLI version; a lookup that
\* fails or finds no or several markers gives no CLI version and the
\* coerced key.
C28_MarkerLookupOfCanonicalRelease ==
    LookupIsGuarded /\ LookupIsOfCanonicalRepository


-----------------------------------------------------------------------------
(* Properties of setupCodeQLBundle.                                        *)

\* setupCodeQLBundle has returned.
SetupReturned == step = "setupDone" /\ setup.sourceType = "returned"

\* The cache holds nothing but what this call has cached: it was empty
\* when the call started.
CacheWasEmpty ==
    toolcacheVersions =
        (IF PipelineEvents("cacheDir") = <<>> THEN {} ELSE {CachedKey})

\* The `B` of the default tag `codeql-bundle-B`.
DefaultBundleVersion == From(defaultCliVersion.tagName, Len(STR_tagPrefix) + 1)

\* setupCodeQLBundle returned in the scenario: no tools input, a stable
\* default CLI version with a tag `codeql-bundle-B`, an empty cache, the
\* public host.
DefaultScenario ==
    /\ SetupReturned
    /\ toolsInput = Undefined
    /\ IsStableRelease(defaultCliVersion.cliVersion)
    /\ StartsWith(defaultCliVersion.tagName, STR_tagPrefix)
    /\ variant = "DOTCOM"
    /\ apiUrl = GITHUB_DOTCOM_URL
    /\ CacheWasEmpty

\* The bundle was cached once, under `V-B`, and reported as downloaded with
\* version V.
DownloadedAndCachedAsDefault ==
    /\ result.sourceType = "download"
    /\ Len(PipelineEvents("downloadTool")) = 1
    /\ PipelineEvents("downloadTool")[1].arg = result.codeqlURL
    /\ Len(PipelineEvents("cacheDir")) = 1
    /\ toolcacheVersions =
            {defaultCliVersion.cliVersion \o <<"-">> \o DefaultBundleVersion}
    /\ setup.codeqlFolder =
            TOOLCACHE_DIR \o defaultCliVersion.cliVersion \o <<"-">>
                \o DefaultBundleVersion
    /\ setup.toolsSource = "DOWNLOAD"
    /\ setup.toolsVersion = defaultCliVersion.cliVersion

\* C15 as stated: in the scenario the bundle is always fetched from the
\* canonical public URL of the tag.
C15_DefaultScenarioFetchesCanonical ==
    DefaultScenario =>
        /\ DownloadedAndCachedAsDefault
        /\ result.codeqlURL = PublicUrlOfRequestedTag

\* C15: in the scenario the resolver returns download, one cache entry is
\* created under `V-B`, and the result reports DOWNLOAD with version V; the
\* bundle is fetched from the canonical public URL of the tag when the
\* action runs from the canonical repository, and also when it runs from
\* another repository whose release lookup gave no asset; otherwise it is
\* fetched from the asset URL that lookup gave.
C15_DefaultScenarioDownloadsAndCaches ==
    DefaultScenario =>
        /\ DownloadedAndCachedAsDefault
        /\ (codeQLActionRepository = CODEQL_DEFAULT_ACTION_REPOSITORY
                \/ ~SomeRequestGaveUrl) =>
                    result.codeqlURL = PublicUrlOfRequestedTag
        /\ (codeQLActionRepository # CODEQL_DEFAULT_ACTION_REPOSITORY
                /\ SomeRequestGaveUrl) =>
                    result.codeqlURL = ASSET_URL \o codeQLActionRepository

\* The scenario with the canonical action: fetched from the public URL and
\* cached under the key of the default version and its bundle version.
C15_Witness ==
    /\ DefaultScenario
    /\ codeQLActionRepository = CODEQL_DEFAULT_ACTION_REPOSITORY
    /\ defaultCliVersion.cliVersion = V_2_12_1
    /\ result.codeqlURL = PublicUrlOfRequestedTag
    /\ toolcacheVersions = {V_2_12_1 \o <<"-">> \o BV_20230101}
    /\ setup.toolsVersion = V_2_12_1


\* The steps setupCodeQLBundle made after the resolver returned.
AllPipelineEvents == SelectSeq(calls, LAMBDA c : c.site = "pipeline")

\* C16: the branch setupCodeQLBundle takes is the one of the resolver's
\* sourceType.  For local only the given archive is extracted and LOCAL is
\* reported; for toolcache nothing is extracted or downloaded, the cached
\* folder is returned and TOOLCACHE reported; for download the pipeline runs
\* on the resolver's URL and DOWNLOAD is reported.  The duration is defined
\* exactly on download, and the version label is the resolver's except on
\* download, where it is the pipeline's.
C16_DispatchOnSourceType ==
    SetupReturned =>
        /\ result.sourceType \in {"local", "toolcache", "download"}
        /\ result.sourceType = "local" =>
                /\ setup.toolsSource = "LOCAL"
                /\ AllPipelineEvents =
                        <<Event("extractTar", result.codeqlTarPath, "ok")>>
                /\ setup.codeqlFolder = CODEQL_EXTRACTED
                /\ setup.toolsVersion = result.toolsVersion
        /\ result.sourceType = "toolcache" =>
                /\ setup.toolsSource = "TOOLCACHE"
                /\ AllPipelineEvents = <<>>
                /\ setup.codeqlFolder = result.codeqlFolder
                /\ setup.toolsVersion = result.toolsVersion
        /\ result.sourceType = "download" =>
                /\ setup.toolsSource = "DOWNLOAD"
                /\ PipelineEvents("downloadTool") =
                        <<Event("downloadTool", result.codeqlURL, "ok")>>
                /\ download.maybeBundleVersion = result.bundleVersion
                /\ downloaded.sourceType = "returned"
                /\ setup.codeqlFolder = downloaded.codeqlFolder
                /\ setup.toolsVersion = downloaded.toolsVersion
        /\ setup.toolsDownloadDurationMs # Undefined
                <=> result.sourceType = "download"
        /\ result.sourceType # "download" =>
                /\ toolcacheVersions \in SetupCaches
                /\ downloaded = NoResult

\* A download reported with a duration of 0 ms and with the label of the
\* pipeline, which is not the label of the resolver.
C16_Witness ==
    /\ SetupReturned
    /\ setup.toolsSource = "DOWNLOAD"
    /\ setup.toolsDownloadDurationMs = <<"0">>
    /\ setup.toolsVersion # result.toolsVersion
    /\ setup.toolsVersion = downloaded.toolsVersion

-----------------------------------------------------------------------------
(* Properties of setupCodeQLBundle: its effect on the tool cache.          *)

\* At most one cache write was made.
AtMostOneCacheWrite == Cardinality(CacheWrites("ok")) <= 1

\* A step keeps every entry of the cache; getCodeQLSource (which runs while
\* downloadCodeQL has not started) changes nothing of it; an entry is added
\* by the cache write of a download with a bundle version, and it is one
\* entry.
CacheOnlyGrowsAtCacheWrite ==
    /\ toolcacheVersions \subseteq toolcacheVersions'
    /\ step = "none" =>
            /\ toolcacheVersions' = toolcacheVersions
            /\ pinnedVersions' = pinnedVersions
    /\ toolcacheVersions' # toolcacheVersions =>
            /\ step = "cacheDir"
            /\ result.sourceType = "download"
            /\ Truthy(download.bundleVersion)
            /\ Cardinality(toolcacheVersions' \ toolcacheVersions) = 1

\* C33: getCodeQLSource never changes the tool cache: after any call,
\* whatever its outcome, the set of cache entries equals the set before the
\* call. setupCodeQLBundle adds at most one cache entry per call, only on
\* the download branch with a determinable bundle version, and never removes
\* or renames an existing entry.
C33_CacheChangesByOneAddedEntry ==
    []AtMostOneCacheWrite /\ [][CacheOnlyGrowsAtCacheWrite]_vars

\* A download was cached next to the entry the cache already had.
C33_Witness ==
    /\ SetupReturned
    /\ setup.toolsSource = "DOWNLOAD"
    /\ CacheWrites("ok") # {}
    /\ CachedKey # V_2_12_1 \o <<"-">> \o BV_20230101
    /\ V_2_12_1 \o <<"-">> \o BV_20230101 \in toolcacheVersions

-----------------------------------------------------------------------------
(* Properties of downloadDependencyCaches.                                 *)

\* The language has a caching configuration and the workspace holds a file
\* that matches one of its hash patterns.
HasConfigAndHashFiles(language) ==
    /\ language \in {"java", "csharp", "go"}
    /\ \E file \in workspaceFiles :
           \E i \in 1..Len(CODEQL_DEFAULT_CACHE_CONFIG[language].hash) :
               <<CODEQL_DEFAULT_CACHE_CONFIG[language].hash[i], file>>
                   \in GlobMatches

\* The hashes that a key can end with.
KeyHashes ==
    {a \o b \o c : a \in {"", "5a"}, b \in {"", "c3"}, c \in {"", "9f"}}

\* The first key is a prefix of the second.
IsKeyPrefix(prefix, key) == \E hash \in KeyHashes : key = prefix \o hash

\* The languages of a sequence of restore calls.
LanguagesOf(restores) == [i \in 1..Len(restores) |-> restores[i].language]

\* The restore reported a hit.
ReportedHit(restore) == restore.hitKey \notin {NoHit, THROWN}

DependencyCachesReturned == cachingStep = "returned"

\* C32: downloadDependencyCaches returns exactly those input languages, in
\* input order, that have a caching configuration, at least one file that
\* matches the hash patterns and a restore that reported a hit; no restore
\* is attempted for a language without configuration or without hash files,
\* and every restore has a single restore key, a prefix of its primary key.
C32_RestoredCachesAreTheHits ==
    /\ \A i \in 1..Len(restoreCalls) :
           /\ HasConfigAndHashFiles(restoreCalls[i].language)
           /\ Len(restoreCalls[i].restoreKeys) = 1
           /\ IsKeyPrefix(restoreCalls[i].restoreKeys[1],
                          restoreCalls[i].primaryKey)
    /\ DependencyCachesReturned =>
           /\ LanguagesOf(restoreCalls)
                  = SelectSeq(languages, HasConfigAndHashFiles)
           /\ restoredCaches
                  = LanguagesOf(SelectSeq(restoreCalls, ReportedHit))

\* A call returned one language of three: one had no configuration, one
\* no cache, and the returned one was found by its restore key.
C32_Witness ==
    /\ DependencyCachesReturned
    /\ Len(languages) = 3
    /\ \E i \in 1..3 : languages[i] = "python"
    /\ Len(restoreCalls) = 2
    /\ Len(restoredCaches) = 1
    /\ \E i \in 1..2 :
           /\ ReportedHit(restoreCalls[i])
           /\ restoreCalls[i].hitKey # restoreCalls[i].primaryKey

=============================================================================
